---- MODULE Spec2Model ----
(***************************************************************************)
(* The demonstration HTTP services of the repository as one state machine. *)
(* A run is one process of one app variant; every request is handled on    *)
(* its own thread, and a thread's steps interleave with the other threads' *)
(* steps at each access to the shared in-memory state.                     *)
(*                                                                         *)
(*   "auto"    src/app-without-inst.py                                     *)
(*   "manual"  src/local-deployment/app/app-without-instrumentation.py     *)
(*   "instr"   src/local-deployment/app/app-with-instrumentation.py        *)
(*   "demo"    src/app-demo/app.py                                         *)
(*   "cloud"   src/app.py                                                  *)
(*   "gke"     src/gke-app.py                                              *)
(*                                                                         *)
(* The test script src/test.py is a process of its own: its runner is      *)
(* checked in SpecRunner and SpecStress against every kind of response a   *)
(* request can get. The SQLite file of app.py and app-demo, which outlives *)
(* the process, is checked in SpecDb over starts of the app.               *)
(***************************************************************************)
EXTENDS Integers, Sequences, FiniteSets, TLC

\* ------------------------------------------------------------------ bounds
\* Methods called on one DynatraceTestRunner in a run.
MaxCalls == 2
\* Requests of the test script that get an unexpected response in a run.
MaxFaults == 1
\* Largest num_threads a caller passes to run_concurrent_tests itself.
MaxWorkers == 2
\* Passes of the loop of a stress worker before its time is up.
MaxRequests == 1
\* Rows the users table of a SQLite file can hold.
MaxRows == 5
\* Starts of an app on one SQLite file.
MaxRuns == 3
\* Requests handled in one run, one thread each.
NThreads == 2
\* Longest product_ids list of an order request.
MaxItems == 2
\* Largest stock a product starts a run with.
MaxStock == 1
\* Products of the catalogue that requests name.
NProducts == 2
\* Seconds of wall-clock time a run covers.
MaxTime == 2
\* Largest duration a caller passes to POST /async-task.
MaxDuration == 2

Threads == 1..NThreads

VARIABLES
    variant,         \* which app this process runs
    users,           \* the users list / users table
    orders,          \* the orders list
    stock,           \* product id -> products[..]['stock']
    total_requests,  \* app_metrics['total_requests'] / metrics_data['requests_count']
    pc,              \* thread -> its position in its handler
    request,         \* thread -> the request it handles
    response,        \* thread -> the response it returned
    counter_read,    \* thread -> the counter value loaded by its '+= 1'
    new_id,          \* thread -> the 'id' it computed from len(..) + 1
    idx,             \* thread -> its position in the product loop / the item loop
    order_items,     \* thread -> order_items built so far
    total_amount,    \* thread -> total_amount accumulated so far
    order_pos,       \* thread -> position in orders of the order dict it appended
    stock_read,      \* thread -> the stock value loaded by its '-= 1'
    user_name,       \* thread -> user['name'] of the user its order is for
    tasks,           \* background threads started by POST /async-task
    now,             \* wall-clock time in seconds
    workers,         \* periodic background threads started with the process
    attempts,        \* thread -> the outbound HTTP calls it made, with their outcomes
    elapsed,         \* thread -> time its handler has measured so far
    pauses,          \* thread -> time.sleep calls of its handler's loop so far
    db_op,           \* a call of simulate_database_operation
    test_results,    \* DynatraceTestRunner.test_results, in insertion order
    main,            \* the test script's main thread: the method it is in
    pool,            \* the worker threads of the method's ThreadPoolExecutor
    request_count,   \* run_stress_test's request_count
    summary,         \* what print_test_summary printed last
    faults,          \* requests of the test script that have failed so far
    db               \* the SQLite database file of the app

shared == <<users, orders, stock, total_requests>>
locals == <<counter_read, new_id, idx, order_items, total_amount, order_pos, stock_read,
            user_name>>
runner == <<test_results, main, pool, request_count, summary, faults>>
outside == <<workers, attempts, elapsed, pauses, db_op, runner, db>>
cloud == <<tasks, now, outside>>
vars == <<variant, shared, pc, request, response, locals, cloud>>

Variants == {"auto", "manual", "instr", "demo", "cloud", "gke"}
\* The two apps that keep users, orders and products in memory.
StoreVariants == {"auto", "manual"}
\* The apps with POST /api/users.
UserVariants == {"auto", "manual", "instr", "demo"}

\* ---------------------------------------------------------------- requests
Names == {"Ann"}
Emails == {"a@x", "b@x"}

\* A request body sent as application/json: null, an object with some of
\* the keys, or text that is not JSON ('malformed'). 'keys' is the object's
\* key set; 'name' / 'email' are meaningful only when their key is present.
JsonNull == [is_null |-> TRUE, malformed |-> FALSE, keys |-> {}, name |-> "", email |-> "",
             user_id |-> 0, product_ids |-> <<>>]
\* request.json / request.get_json() raises BadRequest on such a body.
NotJson == [JsonNull EXCEPT !.is_null = FALSE, !.malformed = TRUE]
UserBodies ==
    {JsonNull, NotJson} \cup
    { [is_null |-> FALSE, malformed |-> FALSE, keys |-> k,
       name |-> (IF "name" \in k THEN n ELSE ""),
       email |-> (IF "email" \in k THEN e ELSE ""),
       user_id |-> 0, product_ids |-> <<>>] :
          k \in SUBSET {"name", "email"}, n \in Names, e \in Emails }

NoRequest == [method |-> "", path |-> "", body |-> JsonNull, arg |-> "", duration |-> 0]
NoResponse == [status |-> 0, body |-> [none |-> TRUE]]

\* 'not user_data': None and the empty dict are falsy.
Falsy(body) == body.is_null \/ body.keys = {}

\* ------------------------------------------------------------ users: data
\* The record appended by create_user (created_at is a wall-clock string the
\* model leaves out).
UserRecord(id, body) == [id |-> id, name |-> body.name, email |-> body.email]

\* next((u for u in users if u['email'] == email), None) is not None
EmailExists(us, email) == \E k \in 1..Len(us) : us[k].email = email

\* ------------------------------------------------------------ thread start
Idle(t) == pc[t] = "idle"
\* Threads are numbered in the order their requests arrive.
NextToArrive(t) == Idle(t) /\ \A s \in Threads : s < t => ~Idle(s)
InFlight(t) == pc[t] \notin {"idle", "done"}

Respond(t, status, body) ==
    /\ response' = [response EXCEPT ![t] = [status |-> status, body |-> body]]
    /\ pc' = [pc EXCEPT ![t] = "done"]

\* ------------------------------------------------------ POST /api/users
\* Flask dispatches the request to handle_users on a new thread.
ReceiveUsersPost(t) ==
    /\ variant \in UserVariants
    /\ NextToArrive(t)
    /\ \E b \in UserBodies :
         request' = [request EXCEPT ![t] =
                        [method |-> "POST", path |-> "/api/users", body |-> b, arg |-> "",
                         duration |-> 0]]
    /\ pc' = [pc EXCEPT ![t] = IF variant = "demo" THEN "create_user" ELSE "handle_users"]
    /\ UNCHANGED <<variant, shared, response, locals, cloud>>

\* app_metrics['total_requests'] += 1, first half: load the counter.
handle_users_load(t) ==
    /\ pc[t] = "handle_users"
    /\ counter_read' = [counter_read EXCEPT ![t] = total_requests]
    /\ pc' = [pc EXCEPT ![t] = "handle_users_store"]
    /\ UNCHANGED <<variant, shared, request, response, new_id, idx, order_items,
                   total_amount, order_pos, stock_read, user_name, cloud>>

\* Second half: store the incremented value; the handler then calls
\* create_user (POST) and goes on to its validation.
handle_users_store(t) ==
    /\ pc[t] = "handle_users_store"
    /\ total_requests' = counter_read[t] + 1
    /\ pc' = [pc EXCEPT ![t] = "create_user"]
    /\ UNCHANGED <<variant, users, orders, stock, request, response, locals, cloud>>

\* create_user, input validation of the two in-memory apps:
\*   if not user_data or 'name' not in user_data or 'email' not in user_data
ValidUserData(body) ==
    ~Falsy(body) /\ "name" \in body.keys /\ "email" \in body.keys

\* request.json is read inside the try: the BadRequest of a body that is
\* not JSON reaches 'except Exception', which answers 500.
create_user_validate(t) ==
    /\ variant \in StoreVariants
    /\ pc[t] = "create_user"
    /\ IF request[t].body.malformed
         THEN Respond(t, 500, [error |-> "Internal server error"])
         ELSE IF ValidUserData(request[t].body)
           THEN /\ pc' = [pc EXCEPT ![t] = "check_email"]
                /\ UNCHANGED response
           ELSE Respond(t, 400, [error |-> "Invalid user data"])
    /\ UNCHANGED <<variant, shared, request, locals, cloud>>

\* After simulate_database_operation("select_by_email"): the duplicate scan.
create_user_check_email(t) ==
    /\ pc[t] = "check_email"
    /\ IF EmailExists(users, request[t].body.email)
         THEN Respond(t, 409, [error |-> "Email already exists"])
         ELSE /\ pc' = [pc EXCEPT ![t] = "build_user"]
              /\ UNCHANGED response
    /\ UNCHANGED <<variant, shared, request, locals, cloud>>

\* An id counted from zero: len(..) without the + 1.
NextId_from_zero(list) == Len(list)

\*   'id': len(users) + 1   /   'id': len(orders) + 1
NextId(list) == Len(list) + 1

\* user = {'id': len(users) + 1, ...}: the id is fixed here, before the
\* insert_user pause and the append.
create_user_build(t) ==
    /\ variant \in StoreVariants
    /\ pc[t] = "build_user"
    /\ new_id' = [new_id EXCEPT ![t] = NextId(users)]
    /\ pc' = [pc EXCEPT ![t] = "append_user"]
    /\ UNCHANGED <<variant, shared, request, response, counter_read, idx, order_items,
                   total_amount, order_pos, stock_read, user_name, cloud>>

\* The insert that puts the newest user first: users.insert(0, user).
create_user_insert_first(t) ==
    /\ pc[t] = "append_user"
    /\ users' = <<UserRecord(new_id[t], request[t].body)>> \o users
    /\ Respond(t, 201, UserRecord(new_id[t], request[t].body))
    /\ UNCHANGED <<variant, orders, stock, total_requests, request, locals, cloud>>

\* users.append(user); the cache and notification pauses touch no shared
\* state, and the handler returns jsonify(user), 201.
create_user_append(t) ==
    /\ pc[t] = "append_user"
    /\ users' = Append(users, UserRecord(new_id[t], request[t].body))
    /\ Respond(t, 201, UserRecord(new_id[t], request[t].body))
    /\ UNCHANGED <<variant, orders, stock, total_requests, request, locals, cloud>>

\* create_user of the manually instrumented app: no validation and no
\* duplicate check; user_data.get('name', 'unknown') raises AttributeError
\* on a null body and request.json raises BadRequest on a body that is not
\* JSON; the except branch answers 400.
instr_create_user_validate(t) ==
    /\ variant = "instr"
    /\ pc[t] = "create_user"
    /\ IF request[t].body.malformed \/ request[t].body.is_null
         THEN Respond(t, 400, [error |-> "Failed to create user"])
         ELSE /\ pc' = [pc EXCEPT ![t] = "build_user"]
              /\ UNCHANGED response
    /\ UNCHANGED <<variant, shared, request, locals, cloud>>

\* user = {'id': len(users) + 1, 'name': user_data['name'], 'email': ...}
\* raises KeyError when a key is missing; the except branch answers 400.
instr_create_user_build(t) ==
    /\ variant = "instr"
    /\ pc[t] = "build_user"
    /\ IF {"name", "email"} \subseteq request[t].body.keys
         THEN /\ new_id' = [new_id EXCEPT ![t] = NextId(users)]
              /\ pc' = [pc EXCEPT ![t] = "append_user"]
              /\ UNCHANGED response
         ELSE /\ Respond(t, 400, [error |-> "Failed to create user"])
              /\ UNCHANGED new_id
    /\ UNCHANGED <<variant, shared, request, counter_read, idx, order_items,
                   total_amount, order_pos, stock_read, user_name, cloud>>

\* create_user of the SQLite demo app, which has no try/except and no
\* duplicate check: data.get on a null body raises AttributeError, which
\* Flask answers with its own 500 page, and the BadRequest of get_json on
\* a body that is not JSON with its own 400 page; a missing (None) name or
\* email is answered 400; otherwise one row is inserted (AUTOINCREMENT id)
\* and the handler answers 200.
demo_create_user(t) ==
    /\ variant = "demo"
    /\ pc[t] = "create_user"
    /\ LET b == request[t].body IN
       IF b.malformed
         THEN /\ Respond(t, 400, [html |-> "Bad Request"])
              /\ UNCHANGED users
       ELSE IF b.is_null
         THEN /\ Respond(t, 500, [html |-> "Internal Server Error"])
              /\ UNCHANGED users
         ELSE IF "name" \notin b.keys \/ "email" \notin b.keys
           THEN /\ Respond(t, 400, [error |-> "Name and email required"])
                /\ UNCHANGED users
           ELSE /\ users' = Append(users, UserRecord(Len(users) + 1, b))
                /\ Respond(t, 200, [message |-> "User created successfully"])
    /\ UNCHANGED <<variant, orders, stock, total_requests, request, locals, cloud>>

\* ------------------------------------------------------------ GET /health
\* A health handler that reports the errors counted so far: once a request
\* has been answered with an error it answers 503.
HealthStatus_degraded(v) ==
    IF \E s \in Threads : response[s].status >= 400 THEN 503 ELSE 200

\* The JSON object each app's health handler returns, always with 200.
HealthBody(v) ==
    CASE v \in StoreVariants ->
           [status |-> "healthy", timestamp |-> now, version |-> "1.0.0",
            metrics |-> total_requests]
      [] v = "instr" ->
           [status |-> "healthy", timestamp |-> now, version |-> "1.0.0"]
      [] v = "demo" ->
           [status |-> "healthy", timestamp |-> now]
      [] v = "cloud" ->
           [status |-> "healthy", timestamp |-> now,
            dynatrace_agent_path |-> "Not set", service |-> "dynatrace-test-app"]
      [] v = "gke" ->
           [status |-> "healthy", timestamp |-> now, uptime |-> now]

HealthStatus(v) == 200

\* http.server.TCPServer (gke) serves one request at a time; Flask's
\* server starts a thread per request.
MayAccept(t) ==
    /\ NextToArrive(t)
    /\ variant = "gke" => \A s \in Threads : ~InFlight(s)

ReceiveHealth(t) ==
    /\ MayAccept(t)
    /\ request' = [request EXCEPT ![t] =
                      [method |-> "GET", path |-> "/health", body |-> JsonNull, arg |-> "",
                       duration |-> 0]]
    /\ pc' = [pc EXCEPT ![t] = "health"]
    /\ UNCHANGED <<variant, shared, response, locals, cloud>>

\* The pauses of the health handlers touch no shared state; the body is
\* built when the handler returns.
health_check(t) ==
    /\ pc[t] = "health"
    /\ Respond(t, HealthStatus(variant), HealthBody(variant))
    /\ UNCHANGED <<variant, shared, request, locals, cloud>>

\* ------------------------------------------------------ POST /api/orders
\* The products list (prices in cents). Requests name its first NProducts
\* entries.
Products ==
    << [id |-> 1, name |-> "Laptop", price |-> 99999],
       [id |-> 2, name |-> "Phone", price |-> 69999],
       [id |-> 3, name |-> "Tablet", price |-> 39999],
       [id |-> 4, name |-> "Headphones", price |-> 19999] >>
ProductIds == 1..NProducts
\* A product id that matches no product.
MissingProductId == Len(Products) + 5
RequestedIds == ProductIds \cup {MissingProductId}
\* User ids a request names: the id of the stored user and an id of none.
RequestedUserIds == {1, 2}

ProductIdLists == UNION { [1..n -> RequestedIds] : n \in 0..MaxItems }

OrderBodies ==
    {JsonNull, NotJson} \cup
    { [is_null |-> FALSE, malformed |-> FALSE, keys |-> k, name |-> "", email |-> "",
       user_id |-> (IF "user_id" \in k THEN u ELSE 0),
       product_ids |-> (IF "product_ids" \in k THEN l ELSE <<>>)] :
          k \in SUBSET {"user_id", "product_ids"},
          u \in RequestedUserIds, l \in ProductIdLists }

\* next((p for p in products if p['id'] == product_id), None)
ProductExists(product_id) == \E k \in 1..Len(Products) : Products[k].id = product_id
Product(product_id) ==
    Products[CHOOSE k \in 1..Len(Products) : Products[k].id = product_id]

\* next((u for u in users if u['id'] == user_id), None): the first match.
UserExists(us, user_id) == \E k \in 1..Len(us) : us[k].id = user_id
FirstUser(us, user_id) ==
    us[CHOOSE k \in 1..Len(us) :
          /\ us[k].id = user_id
          /\ \A j \in 1..(k - 1) : us[j].id # user_id]

\* An item that keeps the requested id only.
OrderItem_id_only(product_id) == [product_id |-> product_id, name |-> "", price |-> 0]

\* order_items.append({'product_id': ..., 'name': ..., 'price': ...})
OrderItem(product_id) ==
    [product_id |-> product_id, name |-> Product(product_id).name,
     price |-> Product(product_id).price]

ReceiveOrdersPost(t) ==
    /\ variant \in StoreVariants
    /\ NextToArrive(t)
    /\ \E b \in OrderBodies :
         request' = [request EXCEPT ![t] =
                        [method |-> "POST", path |-> "/api/orders", body |-> b, arg |-> "",
                         duration |-> 0]]
    /\ pc' = [pc EXCEPT ![t] = "create_order"]
    /\ UNCHANGED <<variant, shared, response, locals, cloud>>

\*   if not order_data or 'user_id' not in order_data or 'product_ids' not in order_data
ValidOrderData(body) ==
    ~Falsy(body) /\ "user_id" \in body.keys /\ "product_ids" \in body.keys

\* create_order without its try/except: Flask answers a raised exception
\* with its own error page.
create_order_validate_uncaught(t) ==
    /\ pc[t] = "create_order"
    /\ LET b == request[t].body IN
       IF b.malformed \/ b.is_null
         THEN Respond(t, 500, [html |-> "Internal Server Error"])
         ELSE IF ~ValidOrderData(b)
           THEN Respond(t, 400, [error |-> "Invalid order data"])
           ELSE /\ pc' = [pc EXCEPT ![t] = "verify_user"]
                /\ UNCHANGED response
    /\ UNCHANGED <<variant, shared, request, locals, cloud>>

\* request.json raises BadRequest on a body that is not JSON, and
\* order_data.get('user_id'), which comes before the validation, raises
\* AttributeError on a null body: the except branch answers 500.
create_order_validate(t) ==
    /\ pc[t] = "create_order"
    /\ LET b == request[t].body IN
       IF b.malformed \/ b.is_null
         THEN Respond(t, 500, [error |-> "Internal server error"])
         ELSE IF ~ValidOrderData(b)
           THEN Respond(t, 400, [error |-> "Invalid order data"])
           ELSE /\ pc' = [pc EXCEPT ![t] = "verify_user"]
                /\ UNCHANGED response
    /\ UNCHANGED <<variant, shared, request, locals, cloud>>

\* The user lookup without its 'return ..., 404': the order of an unknown
\* user goes on under an empty user name.
create_order_verify_user_no_return(t) ==
    /\ pc[t] = "verify_user"
    /\ LET b == request[t].body IN
         user_name' = [user_name EXCEPT ![t] =
                          IF UserExists(users, b.user_id)
                            THEN FirstUser(users, b.user_id).name ELSE ""]
    /\ idx' = [idx EXCEPT ![t] = 1]
    /\ order_items' = [order_items EXCEPT ![t] = <<>>]
    /\ total_amount' = [total_amount EXCEPT ![t] = 0]
    /\ pc' = [pc EXCEPT ![t] = "process_product"]
    /\ UNCHANGED <<variant, shared, request, response, counter_read, new_id, order_pos,
                   stock_read, cloud>>

\* After simulate_database_operation("select_user_by_id"): the user lookup.
create_order_verify_user(t) ==
    /\ pc[t] = "verify_user"
    /\ LET b == request[t].body IN
       IF ~UserExists(users, b.user_id)
         THEN /\ Respond(t, 404, [error |-> "User not found"])
              /\ UNCHANGED <<user_name, idx, order_items, total_amount>>
         ELSE /\ user_name' = [user_name EXCEPT ![t] = FirstUser(users, b.user_id).name]
              /\ idx' = [idx EXCEPT ![t] = 1]
              /\ order_items' = [order_items EXCEPT ![t] = <<>>]
              /\ total_amount' = [total_amount EXCEPT ![t] = 0]
              /\ pc' = [pc EXCEPT ![t] = "process_product"]
              /\ UNCHANGED response
    /\ UNCHANGED <<variant, shared, request, counter_read, new_id, order_pos,
                   stock_read, cloud>>

\* The stock check with the comparison off by one: stock 0 passes.
OutOfStock_lt(s) == s < 0

\*   if product['stock'] <= 0: continue
OutOfStock(s) == s <= 0

\* One pass of 'for product_id in order_data['product_ids']': an id with no
\* product is skipped; otherwise, after the select_inventory pause, a
\* product with stock <= 0 is skipped and any other is priced and added.
create_order_process_product(t) ==
    /\ pc[t] = "process_product"
    /\ idx[t] <= Len(request[t].body.product_ids)
    /\ LET product_id == request[t].body.product_ids[idx[t]] IN
       IF ~ProductExists(product_id) \/ OutOfStock(stock[product_id])
         THEN UNCHANGED <<order_items, total_amount>>
         ELSE /\ total_amount' = [total_amount EXCEPT ![t] = @ + Product(product_id).price]
              /\ order_items' = [order_items EXCEPT ![t] = Append(@, OrderItem(product_id))]
    /\ idx' = [idx EXCEPT ![t] = @ + 1]
    /\ UNCHANGED <<variant, shared, pc, request, response, counter_read, new_id,
                   order_pos, stock_read, user_name, cloud>>

\* order = {'id': len(orders) + 1, ..., 'status': 'pending'}: the id is fixed
\* here, before the insert_order pause and the append.
create_order_build(t) ==
    /\ pc[t] = "process_product"
    /\ idx[t] > Len(request[t].body.product_ids)
    /\ new_id' = [new_id EXCEPT ![t] = NextId(orders)]
    /\ pc' = [pc EXCEPT ![t] = "append_order"]
    /\ UNCHANGED <<variant, shared, request, response, counter_read, idx, order_items,
                   total_amount, order_pos, stock_read, user_name, cloud>>

OrderRecord(t) ==
    [id |-> new_id[t], user_id |-> request[t].body.user_id, user_name |-> user_name[t],
     items |-> order_items[t], total_amount |-> total_amount[t], status |-> "pending"]

\* orders.append(order): the thread keeps its reference to the dict it
\* appended, which is the element at the position it was appended at.
create_order_append(t) ==
    /\ pc[t] = "append_order"
    /\ orders' = Append(orders, OrderRecord(t))
    /\ order_pos' = [order_pos EXCEPT ![t] = Len(orders) + 1]
    /\ pc' = [pc EXCEPT ![t] = "payment"]
    /\ UNCHANGED <<variant, users, stock, total_requests, request, response,
                   counter_read, new_id, idx, order_items, total_amount, stock_read,
                   user_name, cloud>>

\* The payment step that leaves a failed payment's order as it is.
PaymentStatus_keeps_pending(payment_success) ==
    IF payment_success THEN "paid" ELSE "pending"

\* payment_success = random.random() > 0.1
PaymentStatus(payment_success) == IF payment_success THEN "paid" ELSE "payment_failed"

\* The payment step of a handler that keeps the stock of an order whose
\* payment failed: the inventory loop is passed over.
create_order_payment_keeps_stock(t) ==
    /\ pc[t] = "payment"
    /\ \E payment_success \in BOOLEAN :
         /\ orders' = [orders EXCEPT ![order_pos[t]].status = PaymentStatus(payment_success)]
         /\ idx' = [idx EXCEPT ![t] =
                       IF payment_success THEN 1 ELSE Len(order_items[t]) + 1]
    /\ pc' = [pc EXCEPT ![t] = "update_inventory"]
    /\ UNCHANGED <<variant, users, stock, total_requests, request, response,
                   counter_read, new_id, order_items, total_amount, order_pos,
                   stock_read, user_name, cloud>>

\* After the payment pause: order['status'] = 'paid' | 'payment_failed'.
create_order_payment(t) ==
    /\ pc[t] = "payment"
    /\ \E payment_success \in BOOLEAN :
         orders' = [orders EXCEPT ![order_pos[t]].status = PaymentStatus(payment_success)]
    /\ idx' = [idx EXCEPT ![t] = 1]
    /\ pc' = [pc EXCEPT ![t] = "update_inventory"]
    /\ UNCHANGED <<variant, users, stock, total_requests, request, response,
                   counter_read, new_id, order_items, total_amount, order_pos,
                   stock_read, user_name, cloud>>

\* product['stock'] -= 1 for the next item, first half: load the stock.
create_order_stock_load(t) ==
    /\ pc[t] = "update_inventory"
    /\ idx[t] <= Len(order_items[t])
    /\ stock_read' = [stock_read EXCEPT ![t] = stock[order_items[t][idx[t]].product_id]]
    /\ pc' = [pc EXCEPT ![t] = "stock_store"]
    /\ UNCHANGED <<variant, shared, request, response, counter_read, new_id, idx,
                   order_items, total_amount, order_pos, user_name, cloud>>

\* The store with a floor check: a stock that is not positive any more is
\* not decremented, and the request waits for it to be restocked.
create_order_stock_store_floor(t) ==
    /\ pc[t] = "stock_store"
    /\ stock[order_items[t][idx[t]].product_id] > 0
    /\ stock' = [stock EXCEPT ![order_items[t][idx[t]].product_id] = @ - 1]
    /\ idx' = [idx EXCEPT ![t] = @ + 1]
    /\ pc' = [pc EXCEPT ![t] = "update_inventory"]
    /\ UNCHANGED <<variant, users, orders, total_requests, request, response,
                   counter_read, new_id, order_items, total_amount, order_pos,
                   stock_read, user_name, cloud>>

\* Second half: store the decremented value.
create_order_stock_store(t) ==
    /\ pc[t] = "stock_store"
    /\ stock' = [stock EXCEPT ![order_items[t][idx[t]].product_id] = stock_read[t] - 1]
    /\ idx' = [idx EXCEPT ![t] = @ + 1]
    /\ pc' = [pc EXCEPT ![t] = "update_inventory"]
    /\ UNCHANGED <<variant, users, orders, total_requests, request, response,
                   counter_read, new_id, order_items, total_amount, order_pos,
                   stock_read, user_name, cloud>>

\* return jsonify(order), 201
create_order_return(t) ==
    /\ pc[t] = "update_inventory"
    /\ idx[t] > Len(order_items[t])
    /\ Respond(t, 201, orders[order_pos[t]])
    /\ UNCHANGED <<variant, shared, request, locals, cloud>>

\* -------------------------------------------------- error simulation
\* GET /error-test?type=...; without the parameter the type is 'http_error'.
ErrorTypes == {"http_error", "exception", "db_error", "other"}

\* The global handler of the Cloud Run app, @app.errorhandler(Exception).
handle_exception(type_name, message) ==
    [status |-> 500,
     body |-> [error |-> "Application error", type |-> type_name,
               message |-> message, timestamp |-> now]]

\* error_test: what each type is answered with. 'exception' raises
\* ValueError, which the global handler answers; 'db_error' selects from a
\* table that never exists, and the handler's own except branch answers.
error_test_response(error_type) ==
    CASE error_type = "http_error" ->
           [status |-> 500,
            body |-> [error |-> "This is a test HTTP error", error_type |-> "http_error",
                      message |-> "Intentional 500 error for testing"]]
      [] error_type = "exception" ->
           handle_exception("ValueError",
                            "This is a test exception for Dynatrace monitoring")
      [] error_type = "db_error" ->
           [status |-> 500,
            body |-> [error |-> "no such table: non_existent_table",
                      error_type |-> "database_error",
                      message |-> "Intentional database error for testing"]]
      [] OTHER ->
           [status |-> 400,
            body |-> [error |-> "Unknown error type",
                      valid_types |-> <<"http_error", "exception", "db_error">>,
                      message |-> "Please specify a valid error type"]]

ReceiveErrorTest(t) ==
    /\ variant = "cloud"
    /\ MayAccept(t)
    /\ \E e \in ErrorTypes :
         request' = [request EXCEPT ![t] =
                        [method |-> "GET", path |-> "/error-test", body |-> JsonNull,
                         arg |-> e, duration |-> 0]]
    /\ pc' = [pc EXCEPT ![t] = "error_test"]
    /\ UNCHANGED <<variant, shared, response, locals, cloud>>

error_test(t) ==
    /\ pc[t] = "error_test"
    /\ LET r == error_test_response(request[t].arg) IN Respond(t, r.status, r.body)
    /\ UNCHANGED <<variant, shared, request, locals, cloud>>

\* GET /error of the GKE app (send_error) and GET /api/error of the demo app
\* (error_endpoint, which raises or returns 500 at random; Flask answers the
\* raised exception with its own 500 page).
ReceiveError(t) ==
    /\ variant \in {"gke", "demo"}
    /\ MayAccept(t)
    /\ request' = [request EXCEPT ![t] =
                      [method |-> "GET",
                       path |-> (IF variant = "gke" THEN "/error" ELSE "/api/error"),
                       body |-> JsonNull, arg |-> "", duration |-> 0]]
    /\ pc' = [pc EXCEPT ![t] = "error"]
    /\ UNCHANGED <<variant, shared, response, locals, cloud>>

send_error(t) ==
    /\ variant = "gke"
    /\ pc[t] = "error"
    /\ Respond(t, 500, [message |-> "Test error generated", error |-> "division by zero",
                        timestamp |-> now])
    /\ UNCHANGED <<variant, shared, request, locals, cloud>>

error_endpoint(t) ==
    /\ variant = "demo"
    /\ pc[t] = "error"
    /\ \E raises \in BOOLEAN :
         IF raises
           THEN Respond(t, 500, [html |-> "Internal Server Error"])
           ELSE Respond(t, 500, [error |-> "Random error occurred"])
    /\ UNCHANGED <<variant, shared, request, locals, cloud>>

\* ------------------------------------------------------ POST /async-task
\* task_id = f"task_{random.randint(1000, 9999)}"
TaskIds == {"task_1000", "task_1001"}
\* ?duration=...: an integer, or text that int() rejects.
Durations == (0 - 1)..MaxDuration

ReceiveAsyncTask(t) ==
    /\ variant = "cloud"
    /\ MayAccept(t)
    /\ \E a \in {"int", "text"}, d \in Durations :
         /\ a = "text" => d = 0
         /\ request' = [request EXCEPT ![t] =
                           [method |-> "POST", path |-> "/async-task", body |-> JsonNull,
                            arg |-> a, duration |-> d]]
    /\ pc' = [pc EXCEPT ![t] = "async_task"]
    /\ UNCHANGED <<variant, shared, response, locals, cloud>>

\* The thread object made by threading.Thread(target=background_task) and
\* started: the closure holds task_id and task_duration.
NewTask(t, task_id, task_duration) ==
    [owner |-> t, task_id |-> task_id, duration |-> task_duration, state |-> "started",
     start_logs |-> 0, completion_logs |-> 0, wake |-> 0]

\* async_task up to thread.start(); int() of a non-integer raises
\* ValueError, which the global handler answers, and no thread is made.
async_task_start(t) ==
    /\ pc[t] = "async_task"
    /\ IF request[t].arg = "text"
         THEN /\ LET r == handle_exception("ValueError", "invalid literal for int()")
                 IN Respond(t, r.status, r.body)
              /\ UNCHANGED tasks
         ELSE /\ \E task_id \in TaskIds :
                   tasks' = Append(tasks, NewTask(t, task_id, request[t].duration))
              /\ pc' = [pc EXCEPT ![t] = "async_return"]
              /\ UNCHANGED response
    /\ UNCHANGED <<variant, shared, request, locals, now, outside>>

\* The task a handler thread started.
TaskOf(t) == CHOOSE k \in 1..Len(tasks) : tasks[k].owner = t

\* The handler with a thread.join() before its return: it returns once the
\* task's thread has ended.
MayReturn_joins(t) == tasks[TaskOf(t)].state \in {"ended", "raised"}

\* Between thread.start() and the return there is no join and no read of
\* the task: the handler can return whatever the task is doing.
MayReturn(t) == TRUE

\* return jsonify({'message': ..., 'task_id': task_id, 'status': 'running', ...})
async_task_return(t) ==
    /\ pc[t] = "async_return"
    /\ MayReturn(t)
    /\ Respond(t, 200, [message |-> "Async task started",
                        task_id |-> tasks[TaskOf(t)].task_id,
                        duration |-> request[t].duration, status |-> "running",
                        started_at |-> now])
    /\ UNCHANGED <<variant, shared, request, locals, cloud>>

\* time.sleep(secs) raises ValueError for a negative length.
SleepRaises(secs) == secs < 0

\* background_task: the start log line, then time.sleep(task_duration).
\* A raised ValueError ends the thread.
background_task_start(k) ==
    /\ k \in 1..Len(tasks)
    /\ tasks[k].state = "started"
    /\ tasks' = [tasks EXCEPT ![k] =
                    IF SleepRaises(@.duration)
                      THEN [@ EXCEPT !.start_logs = @ + 1, !.state = "raised"]
                      ELSE [@ EXCEPT !.start_logs = @ + 1, !.state = "sleeping",
                                     !.wake = now + tasks[k].duration]]
    /\ UNCHANGED <<variant, shared, pc, request, response, locals, now, outside>>

\* The sleep is over: the completion log line, and the thread ends.
background_task_complete(k) ==
    /\ k \in 1..Len(tasks)
    /\ tasks[k].state = "sleeping"
    /\ now >= tasks[k].wake
    /\ tasks' = [tasks EXCEPT ![k] = [@ EXCEPT !.completion_logs = @ + 1,
                                                !.state = "ended"]]
    /\ UNCHANGED <<variant, shared, pc, request, response, locals, now, outside>>

\* A thread that can take a step now: a handler that is not waiting for
\* anything, or a task that has not reached its sleep.
Runnable(t) == InFlight(t) /\ (pc[t] = "async_return" => MayReturn(t))
TaskRunnable(k) == tasks[k].state = "started"

\* A second passes. The statements of a handler take no time on the scale
\* of the clock: time passes only while every thread sleeps or waits.
Tick ==
    /\ variant = "cloud"
    /\ now < MaxTime
    /\ \A t \in Threads : ~Runnable(t)
    /\ \A k \in 1..Len(tasks) : ~TaskRunnable(k)
    /\ now' = now + 1
    /\ UNCHANGED <<variant, shared, pc, request, response, locals, tasks, outside>>

\* ------------------------------------------------- outbound HTTP calls
\* The apps whose external-call endpoint is modelled, and its path.
ExternalVariants == {"auto", "manual", "demo", "cloud", "gke"}
ExternalPath(v) ==
    CASE v \in StoreVariants -> "/api/external-service"
      [] v = "demo" -> "/api/external"
      [] v = "cloud" -> "/external-api"
      [] v = "gke" -> "/external"

\* The URLs the handler calls, in the order of its requests.get calls.
ExternalUrls(v) ==
    CASE v \in StoreVariants -> <<"https://httpbin.org/delay/1", "https://httpbin.org/json">>
      [] v = "demo" -> <<"https://jsonplaceholder.typicode.com/posts/1">>
      [] v \in {"cloud", "gke"} -> <<"https://httpbin.org/json">>

\* How a requests.get ends: with a response, or with a RequestException.
Outcomes == {"ok", "timeout", "connection_error"}

\* What the except branch of the handler answers.
ExternalFailure(v) ==
    CASE v \in StoreVariants ->
           [status |-> 500, body |-> [error |-> "External service call failed"]]
      [] v = "demo" ->
           [status |-> 503, body |-> [error |-> "External API unavailable"]]
      [] v = "cloud" ->
           [status |-> 500,
            body |-> [error |-> "RequestException", url |-> ExternalUrls(v)[1],
                      duration_seconds |-> 0, message |-> "Failed to call"]]
      [] v = "gke" ->
           [status |-> 500,
            body |-> [message |-> "External call failed", error |-> "RequestException",
                      timestamp |-> now]]

ReceiveExternal(t) ==
    /\ variant \in ExternalVariants
    /\ MayAccept(t)
    /\ request' = [request EXCEPT ![t] =
                      [method |-> "GET", path |-> ExternalPath(variant), body |-> JsonNull,
                       arg |-> "", duration |-> 0]]
    /\ pc' = [pc EXCEPT ![t] = "external"]
    /\ idx' = [idx EXCEPT ![t] = 1]
    /\ UNCHANGED <<variant, shared, response, counter_read, new_id, order_items,
                   total_amount, order_pos, stock_read, user_name, cloud>>

\* A handler that tries a failed call a second time before it gives up.
requests_get_retry(t) ==
    /\ pc[t] = "external"
    /\ idx[t] <= Len(ExternalUrls(variant))
    /\ \E o \in Outcomes :
         LET url == ExternalUrls(variant)[idx[t]]
             tried == \E i \in 1..Len(attempts[t]) : attempts[t][i].url = url
         IN  /\ attempts' = [attempts EXCEPT ![t] = Append(@, [url |-> url, outcome |-> o])]
             /\ IF o = "ok"
                  THEN /\ idx' = [idx EXCEPT ![t] = @ + 1]
                       /\ UNCHANGED <<pc, response>>
                  ELSE IF tried
                    THEN /\ Respond(t, ExternalFailure(variant).status,
                                    ExternalFailure(variant).body)
                         /\ UNCHANGED idx
                    ELSE UNCHANGED <<pc, response, idx>>
    /\ UNCHANGED <<variant, shared, request, counter_read, new_id, order_items,
                   total_amount, order_pos, stock_read, user_name, tasks, now, workers,
                   elapsed, pauses, db_op, runner, db>>

\* The next requests.get(url, timeout=...) of the handler: it returns a
\* response, or it raises and the except branch answers.
requests_get(t) ==
    /\ pc[t] = "external"
    /\ idx[t] <= Len(ExternalUrls(variant))
    /\ \E o \in Outcomes :
         /\ attempts' = [attempts EXCEPT ![t] =
                           Append(@, [url |-> ExternalUrls(variant)[idx[t]], outcome |-> o])]
         /\ IF o = "ok"
              THEN /\ idx' = [idx EXCEPT ![t] = @ + 1]
                   /\ UNCHANGED <<pc, response>>
              ELSE /\ Respond(t, ExternalFailure(variant).status,
                              ExternalFailure(variant).body)
                   /\ UNCHANGED idx
    /\ UNCHANGED <<variant, shared, request, counter_read, new_id, order_items,
                   total_amount, order_pos, stock_read, user_name, tasks, now, workers,
                   elapsed, pauses, db_op, runner, db>>

\* Every call returned a response: the handler answers with success.
external_return(t) ==
    /\ pc[t] = "external"
    /\ idx[t] > Len(ExternalUrls(variant))
    /\ Respond(t, 200, [status |-> "success"])
    /\ UNCHANGED <<variant, shared, request, locals, cloud>>

\* ------------------------------------------ simulate_database_operation
\* Durations are in units of 10 ms. The duration_range arguments of the
\* call sites ((0.05, 0.2) by default, (0.02, 0.05), (0.08, 0.15),
\* (0.1, 0.2), (0.01, 0.03)), and ranges no call site passes: an empty
\* interval at zero and two that reach below zero.
DurationRanges ==
    { <<5, 20>>, <<2, 5>>, <<8, 15>>, <<10, 20>>, <<1, 3>>,
      <<0, 0>>, <<0 - 2, 0 - 1>>, <<0 - 1, 1>> }

NoDbOp == [pc |-> "none", lo |-> 0, hi |-> 0, duration |-> 0, log |-> <<>>,
           slept |-> 0, returned |-> 0]

\* A sample that can overshoot the range by one unit.
Uniform_beyond(lo, hi) == lo..(hi + 1)

\* random.uniform(lo, hi), lo <= hi: a value d with lo <= d <= hi.
Uniform(lo, hi) == lo..hi

\* simulate_database_operation(operation_type, duration_range) is called.
simulate_database_operation_call ==
    /\ db_op.pc = "none"
    /\ \E r \in DurationRanges :
         db_op' = [NoDbOp EXCEPT !.pc = "called", !.lo = r[1], !.hi = r[2]]
    /\ UNCHANGED <<variant, shared, pc, request, response, locals, tasks, now,
                   workers, attempts, elapsed, pauses, runner, db>>

\* The 'Starting' record and duration = random.uniform(*duration_range).
simulate_database_operation_start ==
    /\ db_op.pc = "called"
    /\ \E d \in Uniform(db_op.lo, db_op.hi) :
         db_op' = [db_op EXCEPT !.pc = "sleep", !.duration = d,
                                !.log = Append(@, "Starting")]
    /\ UNCHANGED <<variant, shared, pc, request, response, locals, tasks, now,
                   workers, attempts, elapsed, pauses, runner, db>>

\* time.sleep(duration): raises ValueError for a negative duration,
\* otherwise pauses for the duration.
simulate_database_operation_sleep ==
    /\ db_op.pc = "sleep"
    /\ db_op' = IF SleepRaises(db_op.duration)
                  THEN [db_op EXCEPT !.pc = "raised"]
                  ELSE [db_op EXCEPT !.pc = "slept", !.slept = db_op.duration]
    /\ UNCHANGED <<variant, shared, pc, request, response, locals, tasks, now,
                   workers, attempts, elapsed, pauses, runner, db>>

\* The 'Completed' record and 'return duration'.
simulate_database_operation_return ==
    /\ db_op.pc = "slept"
    /\ db_op' = [db_op EXCEPT !.pc = "returned", !.returned = db_op.duration,
                               !.log = Append(@, "Completed")]
    /\ UNCHANGED <<variant, shared, pc, request, response, locals, tasks, now,
                   workers, attempts, elapsed, pauses, runner, db>>

\* ---------------------------------------------- GET /work, GET /api/slow
\* Measured times are in units of 0.1 ms.
\*   time.sleep(random.uniform(0.1, 0.5))
WorkPauseMin == 1000
WorkPauseMax == 5000
WorkPauses == {WorkPauseMin, (WorkPauseMin + WorkPauseMax) \div 2, WorkPauseMax}
\* What a stretch of computation between two readings of the clock takes,
\* and by how much a time.sleep outlasts the time it was asked for.
ComputeTimes == {0, 4}
Overshoots == {0, 6}

\* GET /work of the GKE app, GET /api/slow of the demo app.
ReceiveWork(t) ==
    /\ variant \in {"gke", "demo"}
    /\ MayAccept(t)
    /\ request' = [request EXCEPT ![t] =
                      [method |-> "GET",
                       path |-> (IF variant = "gke" THEN "/work" ELSE "/api/slow"),
                       body |-> JsonNull, arg |-> "", duration |-> 0]]
    /\ pc' = [pc EXCEPT ![t] = "work"]
    /\ UNCHANGED <<variant, shared, response, locals, cloud>>

\* send_work: start = time.time(), the loop over range(100000), and the
\* handler enters its time.sleep.
send_work_loop(t) ==
    /\ variant = "gke"
    /\ pc[t] = "work"
    /\ \E c \in ComputeTimes : elapsed' = [elapsed EXCEPT ![t] = c]
    /\ pc' = [pc EXCEPT ![t] = "work_sleep"]
    /\ UNCHANGED <<variant, shared, request, response, locals, tasks, now, workers,
                   attempts, pauses, db_op, runner, db>>

\* The sleep returns: duration = time.time() - start, and the response.
send_work_return(t) ==
    /\ variant = "gke"
    /\ pc[t] = "work_sleep"
    /\ \E d \in WorkPauses, o \in Overshoots :
         /\ elapsed' = [elapsed EXCEPT ![t] = @ + d + o]
         /\ Respond(t, 200, [message |-> "Work completed",
                              duration |-> elapsed[t] + d + o, timestamp |-> now])
    /\ UNCHANGED <<variant, shared, request, locals, tasks, now, workers, attempts,
                   pauses, db_op, runner, db>>

\* slow_endpoint: the handler enters time.sleep(random.uniform(1, 3)).
slow_endpoint_sleep(t) ==
    /\ variant = "demo"
    /\ pc[t] = "work"
    /\ pc' = [pc EXCEPT ![t] = "work_sleep"]
    /\ UNCHANGED <<variant, shared, request, response, locals, cloud>>

\* The sleep returns: sum(range(100000)) and the response.
slow_endpoint_return(t) ==
    /\ variant = "demo"
    /\ pc[t] = "work_sleep"
    /\ Respond(t, 200, [message |-> "Slow operation completed", timestamp |-> now])
    /\ UNCHANGED <<variant, shared, request, locals, cloud>>

\* ------------------------------------------------- GET /cpu-intensive
\* Blocks of the loop a request can ask for.
MaxBlocks == 2
\*   if i % 10000 == 0: time.sleep(0.001)
PauseEvery == 10000
\* The length asked of that time.sleep, in units of 0.1 ms.
CpuPause == 10

\* ?iterations=...: counts around the multiples of PauseEvery, and counts
\* for which range() is empty.
IterationCounts ==
    {0 - 1, 0, 1} \cup { k * PauseEvery + d : k \in 1..MaxBlocks, d \in {0 - 1, 0, 1} }

\* A loop that spares the pause of its first iteration.
IsPauseIteration_after_first(i) == i % PauseEvery = 0 /\ i > 0

IsPauseIteration(i) == i % PauseEvery = 0

\* The first i above 'i' at which the loop can pause again.
NextPauseAt(i) == ((i \div PauseEvery) + 1) * PauseEvery

\* round(duration, 3): 'e' in units of 0.1 ms to whole milliseconds, a tie
\* going to the even neighbour.
RoundMs(e) ==
    LET q == e \div 10
        r == e % 10
    IN  IF r < 5 THEN q
        ELSE IF r > 5 THEN q + 1
        ELSE IF q % 2 = 0 THEN q ELSE q + 1

ReceiveCpuIntensive(t) ==
    /\ variant = "cloud"
    /\ MayAccept(t)
    /\ \E a \in {"int", "text"}, n \in IterationCounts :
         /\ a = "text" => n = 0
         /\ request' = [request EXCEPT ![t] =
                           [method |-> "GET", path |-> "/cpu-intensive", body |-> JsonNull,
                            arg |-> a, duration |-> 0, iterations |-> n]]
    /\ pc' = [pc EXCEPT ![t] = "cpu_intensive"]
    /\ UNCHANGED <<variant, shared, response, locals, cloud>>

\* start_time = time.time(); iterations = int(...), which raises ValueError
\* on text that is not an integer (answered by the global handler);
\* result = 0 and the loop begins.
cpu_intensive_start(t) ==
    /\ pc[t] = "cpu_intensive"
    /\ IF request[t].arg = "text"
         THEN /\ LET r == handle_exception("ValueError", "invalid literal for int()")
                 IN Respond(t, r.status, r.body)
              /\ UNCHANGED <<idx, elapsed, pauses>>
         ELSE /\ idx' = [idx EXCEPT ![t] = 0]
              /\ elapsed' = [elapsed EXCEPT ![t] = 0]
              /\ pauses' = [pauses EXCEPT ![t] = 0]
              /\ pc' = [pc EXCEPT ![t] = "cpu_loop"]
              /\ UNCHANGED response
    /\ UNCHANGED <<variant, shared, request, counter_read, new_id, order_items,
                   total_amount, order_pos, stock_read, user_name, tasks, now, workers,
                   attempts, db_op, runner, db>>

\* The iterations from i = idx up to the next i at which the loop can
\* pause: the sums (the value of result, an unbounded Python integer, is
\* left out), and the time.sleep of the iterations that are to pause.
cpu_intensive_loop(t) ==
    /\ pc[t] = "cpu_loop"
    /\ idx[t] < request[t].iterations
    /\ LET last == IF NextPauseAt(idx[t]) < request[t].iterations
                     THEN NextPauseAt(idx[t]) ELSE request[t].iterations
           slept == { i \in {idx[t]} : IsPauseIteration(i) }
       IN  /\ \E c \in ComputeTimes, o \in Overshoots :
                elapsed' = [elapsed EXCEPT ![t] =
                               @ + c + Cardinality(slept) * (CpuPause + o)]
           /\ pauses' = [pauses EXCEPT ![t] = @ + Cardinality(slept)]
           /\ idx' = [idx EXCEPT ![t] = last]
    /\ UNCHANGED <<variant, shared, pc, request, response, counter_read, new_id,
                   order_items, total_amount, order_pos, stock_read, user_name, tasks,
                   now, workers, attempts, db_op, runner, db>>

\* The loop is over: duration = time.time() - start_time and the response.
cpu_intensive_return(t) ==
    /\ pc[t] = "cpu_loop"
    /\ idx[t] >= request[t].iterations
    /\ Respond(t, 200, [iterations |-> request[t].iterations,
                        duration_seconds |-> RoundMs(elapsed[t])])
    /\ UNCHANGED <<variant, shared, request, locals, cloud>>

\* ------------------------------------------- periodic background thread
\* The apps that start a periodic thread before they serve: the demo app at
\* import (metrics_thread.start()), the GKE app in main().
WorkerVariants == {"demo", "gke"}

\* Log lines of a worker the model tells apart; later ones count as the
\* last.
MaxLogs == 2

\* threading.Thread(target=..., daemon=True), started: at the top of its
\* 'while True' loop.
NewWorker == [pc |-> "log", logs |-> 0]

\* The worker that runs its body once: the loop without 'while True'.
AfterSleep_once(v) == "ended"

\* Where the worker goes when its time.sleep(30) is over: the GKE worker
\* pauses once more (0.1 to 0.3 s), the demo worker is back at the top.
AfterSleep(v) == IF v = "gke" THEN "process" ELSE "log"

\* logger.info(...) at the top of the loop, then time.sleep(30) begins.
worker_log(w) ==
    /\ w \in 1..Len(workers)
    /\ workers[w].pc = "log"
    /\ workers' = [workers EXCEPT ![w] =
                      [pc |-> "sleep",
                       logs |-> IF @.logs < MaxLogs THEN @.logs + 1 ELSE @.logs]]
    /\ UNCHANGED <<variant, shared, pc, request, response, locals, tasks, now,
                   attempts, elapsed, pauses, db_op, runner, db>>

\* time.sleep(30) returns.
worker_wake(w) ==
    /\ w \in 1..Len(workers)
    /\ workers[w].pc = "sleep"
    /\ workers' = [workers EXCEPT ![w].pc = AfterSleep(variant)]
    /\ UNCHANGED <<variant, shared, pc, request, response, locals, tasks, now,
                   attempts, elapsed, pauses, db_op, runner, db>>

\* background_worker of the GKE app: time.sleep(random.uniform(0.1, 0.3))
\* returns, and the loop starts over.
worker_process(w) ==
    /\ w \in 1..Len(workers)
    /\ workers[w].pc = "process"
    /\ workers' = [workers EXCEPT ![w].pc = "log"]
    /\ UNCHANGED <<variant, shared, pc, request, response, locals, tasks, now,
                   attempts, elapsed, pauses, db_op, runner, db>>

\* ----------------------------------------------------- the test script
\* DynatraceTestRunner(base_url, audience), no method running.
\* 'response' is what the main thread's last request ended in.
MainIdle == [method |-> "none", outer |-> "none", step |-> 0, case |-> 0, calls |-> 0,
             returned |-> "none", response |-> "none"]
\* What a request of the script ends in: a 2xx response whose body is a
\* JSON object, a JSON list, a JSON number or text that is not JSON; an
\* HTTPError (4xx/5xx) whose body is a JSON object, another JSON value or
\* not JSON; or another exception (URLError, a failed token fetch).
ResponseKinds ==
    {"json_object", "json_list", "json_number", "not_json",
     "http_error_json_object", "http_error_json_other", "http_error_not_json",
     "exception"}
Returned2xx == {"json_object", "json_list", "json_number", "not_json"}
HttpErrors == {"http_error_json_object", "http_error_json_other", "http_error_not_json"}

\* The suites that run their cases one after the other, with the test
\* names of their lists.
SuiteCases(m) ==
    CASE m = "test_health_endpoints" ->
           <<"Health Check", "Readiness Check", "Home Page", "System Metrics">>
      [] m = "test_cpu_intensive" ->
           <<"CPU Light Load", "CPU Medium Load", "CPU Heavy Load">>
      [] m = "test_memory_operations" ->
           <<"Memory 5MB Test", "Memory 20MB Test", "Memory 50MB Test">>
      [] m = "test_database_operations" ->
           <<"Database SELECT", "Database INSERT", "Database UPDATE">>
      [] m = "test_external_api_calls" ->
           <<"External API Default", "External API JSON", "External API Slow",
             "External API Status">>
      [] m = "test_error_generation" ->
           <<"HTTP Error Test", "Exception Test", "Database Error Test">>
      [] m = "test_custom_metrics" -> <<"Business Metrics", "Technical Metrics">>
      [] m = "test_async_tasks" -> <<"Async Task 2s", "Async Task 5s", "Async Task 3s">>
      [] m = "test_load_testing" -> <<"Comprehensive Load Test">>
SequentialSuites ==
    {"test_health_endpoints", "test_cpu_intensive", "test_memory_operations",
     "test_database_operations", "test_external_api_calls", "test_error_generation",
     "test_custom_metrics", "test_async_tasks", "test_load_testing"}

\* The response the app gives the case when all is well: the home page is
\* HTML, /error-test answers 500 with a JSON object.
Expected(m, name) ==
    IF name = "Home Page" THEN "not_json"
    ELSE IF m = "test_error_generation" THEN "http_error_json_object"
    ELSE "json_object"

\* The position of test_name among the keys of test_results, 0 if absent.
KeyPos(tr, test_name) ==
    IF \E i \in 1..Len(tr) : tr[i].name = test_name
      THEN CHOOSE i \in 1..Len(tr) : tr[i].name = test_name
      ELSE 0

\* A log_test_result that keeps every result: it appends.
log_test_result_appends(tr, test_name, success, kind, n) ==
    Append(tr, [name |-> test_name, success |-> success, kind |-> kind, n |-> n])

\* self.test_results[test_name] = {...}: a dict keeps the position of a key
\* it already has and puts a new key last. 'kind' and 'n' stand for
\* response_data.
log_test_result(tr, test_name, success, kind, n) ==
    LET entry == [name |-> test_name, success |-> success, kind |-> kind, n |-> n]
    IN  IF KeyPos(tr, test_name) = 0
          THEN Append(tr, entry)
          ELSE [tr EXCEPT ![KeyPos(tr, test_name)] = entry]

\* The body of the 'try' of a case, and the 'except' that follows it.
\* A 2xx body is decoded (the home page) or parsed; the result is logged
\* as passed; the code after the log of test_custom_metrics,
\* test_async_tasks and test_load_testing raises on a JSON value it cannot
\* search, and the except branch then logs the case again, as failed.
\* Any exception is logged as failed.
RunCase(tr, m, name, o) ==
    IF o \in Returned2xx
      THEN IF name = "Home Page"
             THEN log_test_result(tr, name, TRUE, "html_length", 0)
           ELSE IF o = "not_json"
             THEN log_test_result(tr, name, FALSE, "none", 0)
           ELSE IF \/ m \in {"test_custom_metrics", "test_load_testing"} /\ o = "json_number"
                   \/ m = "test_async_tasks" /\ o \in {"json_list", "json_number"}
             THEN log_test_result(log_test_result(tr, name, TRUE, "parsed", 0),
                                  name, FALSE, "none", 0)
           ELSE log_test_result(tr, name, TRUE, "parsed", 0)
      ELSE log_test_result(tr, name, FALSE, "none", 0)

\* A test_error_generation that treats an HTTPError like any exception.
RunErrorCase_strict(tr, name, o) ==
    IF o \in {"json_object", "json_list", "json_number"}
      THEN log_test_result(tr, name, TRUE, "parsed", 0)
      ELSE log_test_result(tr, name, FALSE, "none", 0)

\* A case of test_error_generation: an HTTPError is logged as passed, with
\* its parsed body or, when the body does not parse, with a placeholder;
\* when the parsed body has no .get, the print after the log raises and
\* the bare except logs the placeholder over it.
RunErrorCase(tr, name, o) ==
    IF o \in {"json_object", "json_list", "json_number"}
      THEN log_test_result(tr, name, TRUE, "parsed", 0)
    ELSE IF o = "not_json"
      THEN log_test_result(tr, name, FALSE, "none", 0)
    ELSE IF o = "http_error_json_object"
      THEN log_test_result(tr, name, TRUE, "parsed", 0)
    ELSE IF o = "http_error_json_other"
      THEN log_test_result(log_test_result(tr, name, TRUE, "parsed", 0),
                           name, TRUE, "placeholder", 0)
    ELSE IF o = "http_error_not_json"
      THEN log_test_result(tr, name, TRUE, "placeholder", 0)
    ELSE log_test_result(tr, name, FALSE, "none", 0)

\* Nothing printed yet.
NoSummary == [printed |-> FALSE, executed |-> FALSE, total |-> 0, passed |-> 0,
              failed |-> 0, failed_names |-> <<>>, rate |-> FALSE]

\* The state of the apps, which the test script does not share.
served == <<variant, shared, pc, request, response, locals, tasks, now, workers,
            attempts, elapsed, pauses, db_op, db>>

\* run_all_tests: the methods it calls, in order (the stress test is
\* commented out there).
AllTests ==
    <<"test_health_endpoints", "test_cpu_intensive", "test_memory_operations",
      "test_database_operations", "test_external_api_calls", "test_error_generation",
      "test_custom_metrics", "test_async_tasks", "test_load_testing",
      "run_concurrent_tests", "print_test_summary">>
\* self.run_concurrent_tests(3) of run_all_tests.
ConcurrentWorkers == 3
\* ThreadPoolExecutor(max_workers=3) with three stress_worker futures.
StressWorkers == 3
\* operations = [...] of concurrent_test: four requests.
ConcurrentOperations == 4
Methods == SequentialSuites \cup
           {"run_concurrent_tests", "run_stress_test", "print_test_summary",
            "run_all_tests"}

\* test_name = f"Concurrent Test {thread_id}", thread_id = i + 1
ConcurrentName(thread_id) ==
    <<"Concurrent Test 1", "Concurrent Test 2", "Concurrent Test 3">>[thread_id]

\* A worker of the pool at the start of its function.
NewConcurrentWorker == [pc |-> "running", sent |-> 0, results |-> 0, read |-> 0,
                        completed |-> 0]
NewStressWorker == [pc |-> "loop", sent |-> 0, results |-> 0, read |-> 0,
                    completed |-> 0]

\* The main thread at the first statement of method m.
Enter(m, outer, step, calls, returned) ==
    [method |-> m, outer |-> outer, step |-> step, case |-> 1, calls |-> calls,
     returned |-> returned, response |-> "none"]
\* The futures the method submits to its executor.
Submitted(m, n) ==
    IF m = "run_concurrent_tests" THEN [i \in 1..n |-> NewConcurrentWorker]
    ELSE IF m = "run_stress_test" THEN [i \in 1..StressWorkers |-> NewStressWorker]
    ELSE pool

\* The caller picks a method of the runner; run_all_tests begins with its
\* first suite.
runner_call(m, n) ==
    /\ main.method = "none"
    /\ main.calls < MaxCalls
    /\ m \in Methods
    /\ n \in 1..MaxWorkers
    /\ m # "run_concurrent_tests" => n = 1
    /\ main' = IF m = "run_all_tests"
                 THEN Enter(AllTests[1], m, 1, main.calls + 1, main.returned)
                 ELSE Enter(m, "none", 0, main.calls + 1, main.returned)
    /\ pool' = Submitted(m, n)
    /\ request_count' = IF m = "run_stress_test" THEN 0 ELSE request_count
    /\ UNCHANGED <<served, test_results, summary, faults>>

\* The main thread when method m returns: back in the caller, or at the
\* next method of run_all_tests.
AfterReturn(m) ==
    IF main.outer = "run_all_tests"
      THEN IF main.step < Len(AllTests)
             THEN Enter(AllTests[main.step + 1], main.outer, main.step + 1, main.calls, m)
             ELSE [MainIdle EXCEPT !.calls = main.calls, !.returned = main.outer]
      ELSE [MainIdle EXCEPT !.calls = main.calls, !.returned = m]
PoolAfterReturn ==
    IF main.outer = "run_all_tests" /\ main.step < Len(AllTests)
      THEN Submitted(AllTests[main.step + 1], ConcurrentWorkers)
      ELSE pool

\* A suite whose loop ends at the first request that raises.
AfterCase_stops(m, case, o) ==
    IF o \in HttpErrors \cup {"exception"} THEN Len(SuiteCases(m)) + 1 ELSE case + 1

\* The try/except is inside the loop: whatever the case ended in, the loop
\* goes on with the next case.
AfterCase(m, case, o) == case + 1

\* One pass of 'for ..., test_name in ..._tests': the request, and the
\* try/except around it.
run_case ==
    /\ main.method \in SequentialSuites
    /\ main.case <= Len(SuiteCases(main.method))
    /\ LET m == main.method
           name == SuiteCases(m)[main.case]
       IN  \E o \in ResponseKinds :
             /\ o # Expected(m, name) => faults < MaxFaults
             /\ faults' = IF o # Expected(m, name) THEN faults + 1 ELSE faults
             /\ test_results' = IF m = "test_error_generation"
                                  THEN RunErrorCase(test_results, name, o)
                                  ELSE RunCase(test_results, m, name, o)
             /\ main' = [main EXCEPT !.case = AfterCase(m, @, o), !.response = o]
    /\ UNCHANGED <<served, pool, request_count, summary>>

\* The loop is over and the suite returns.
suite_return ==
    /\ main.method \in SequentialSuites
    /\ main.case > Len(SuiteCases(main.method))
    /\ main' = AfterReturn(main.method)
    /\ pool' = PoolAfterReturn
    /\ UNCHANGED <<served, test_results, request_count, summary, faults>>

\* concurrent_test: the next of its four requests. A response that
\* parses is added to results; anything else raises, the except branch
\* logs the test as failed and the function returns.
concurrent_request(w) ==
    /\ main.method = "run_concurrent_tests"
    /\ w \in 1..Len(pool)
    /\ pool[w].pc = "running"
    /\ pool[w].results < ConcurrentOperations
    /\ \E o \in ResponseKinds :
         /\ o # "json_object" => faults < MaxFaults
         /\ faults' = IF o # "json_object" THEN faults + 1 ELSE faults
         /\ IF o \in {"json_object", "json_list", "json_number"}
              THEN /\ pool' = [pool EXCEPT ![w].sent = @ + 1, ![w].results = @ + 1]
                   /\ UNCHANGED test_results
              ELSE /\ pool' = [pool EXCEPT ![w].sent = @ + 1, ![w].pc = "done"]
                   /\ test_results' =
                        log_test_result(test_results, ConcurrentName(w), FALSE, "none", 0)
    /\ UNCHANGED <<served, main, request_count, summary>>

\* All four responses are in: the test is logged as passed.
concurrent_log(w) ==
    /\ main.method = "run_concurrent_tests"
    /\ w \in 1..Len(pool)
    /\ pool[w].pc = "running"
    /\ pool[w].results = ConcurrentOperations
    /\ pool' = [pool EXCEPT ![w].pc = "done"]
    /\ test_results' = log_test_result(test_results, ConcurrentName(w), TRUE,
                                       "operations", pool[w].results)
    /\ UNCHANGED <<served, main, request_count, summary, faults>>

\* An executor that is left as soon as one future has its result.
AllDone_first == \E w \in 1..Len(pool) : pool[w].pc = "done"

\* 'with ThreadPoolExecutor(...)' ends: every future has its result and
\* the workers are joined.
AllDone == \A w \in 1..Len(pool) : pool[w].pc = "done"
concurrent_return ==
    /\ main.method = "run_concurrent_tests"
    /\ AllDone
    /\ main' = AfterReturn(main.method)
    /\ pool' = PoolAfterReturn
    /\ UNCHANGED <<served, test_results, request_count, summary, faults>>

\* stress_worker at 'while time.time() < end_time': the time is up and
\* the worker returns, or it goes into another pass.
stress_check(w) ==
    /\ main.method = "run_stress_test"
    /\ w \in 1..Len(pool)
    /\ pool[w].pc = "loop"
    /\ \E time_is_up \in BOOLEAN :
         /\ ~time_is_up => pool[w].sent < MaxRequests
         /\ pool' = [pool EXCEPT ![w].pc = IF time_is_up THEN "done" ELSE "request"]
    /\ UNCHANGED <<served, test_results, main, request_count, summary, faults>>

\* The request of the pass (its endpoint picked by request_count % 4). The
\* body is not looked at: any 2xx response completes the request; an
\* HTTPError or another exception is printed and the pass ends in its
\* time.sleep(0.1).
stress_request(w) ==
    /\ main.method = "run_stress_test"
    /\ w \in 1..Len(pool)
    /\ pool[w].pc = "request"
    /\ \E o \in ResponseKinds :
         /\ o \notin Returned2xx => faults < MaxFaults
         /\ faults' = IF o \notin Returned2xx THEN faults + 1 ELSE faults
         /\ pool' = IF o \in Returned2xx
                      THEN [pool EXCEPT ![w].sent = @ + 1, ![w].completed = @ + 1,
                                        ![w].pc = "load"]
                      ELSE [pool EXCEPT ![w].sent = @ + 1, ![w].pc = "loop"]
    /\ UNCHANGED <<served, test_results, main, request_count, summary>>

\* request_count += 1 on the nonlocal variable, first half: load it.
stress_load(w) ==
    /\ main.method = "run_stress_test"
    /\ w \in 1..Len(pool)
    /\ pool[w].pc = "load"
    /\ pool' = [pool EXCEPT ![w].read = request_count, ![w].pc = "store"]
    /\ UNCHANGED <<served, test_results, main, request_count, summary, faults>>

\* Second half: store the sum; then time.sleep(0.1) and the next pass.
stress_store(w) ==
    /\ main.method = "run_stress_test"
    /\ w \in 1..Len(pool)
    /\ pool[w].pc = "store"
    /\ request_count' = pool[w].read + 1
    /\ pool' = [pool EXCEPT ![w].pc = "loop"]
    /\ UNCHANGED <<served, test_results, main, summary, faults>>

\* The executor is shut down: the total is printed and logged.
stress_return ==
    /\ main.method = "run_stress_test"
    /\ AllDone
    /\ test_results' = log_test_result(test_results, "Stress Test", TRUE, "totals",
                                       request_count)
    /\ main' = AfterReturn(main.method)
    /\ pool' = PoolAfterReturn
    /\ UNCHANGED <<served, request_count, summary, faults>>

\* Entries of tr that are failed results, in order.
RECURSIVE FailedNames(_)
FailedNames(tr) ==
    IF tr = <<>> THEN <<>>
    ELSE IF tr[1].success THEN FailedNames(Tail(tr))
    ELSE <<tr[1].name>> \o FailedNames(Tail(tr))
PassedTests(tr) == Cardinality({ i \in 1..Len(tr) : tr[i].success })

\* print_test_summary: 'No tests were executed.' and return, or the
\* statistics, the success rate and the failed tests.
print_test_summary ==
    /\ main.method = "print_test_summary"
    /\ summary' =
         IF test_results = <<>>
           THEN [NoSummary EXCEPT !.printed = TRUE]
           ELSE LET total_tests == Len(test_results)
                    passed_tests == PassedTests(test_results)
                    failed_tests == total_tests - passed_tests
                IN  [printed |-> TRUE, executed |-> TRUE, total |-> total_tests,
                     passed |-> passed_tests, failed |-> failed_tests,
                     failed_names |-> (IF failed_tests > 0
                                         THEN FailedNames(test_results) ELSE <<>>),
                     rate |-> TRUE]
    /\ main' = AfterReturn(main.method)
    /\ pool' = PoolAfterReturn
    /\ UNCHANGED <<served, test_results, request_count, faults>>

\* The methods other than the stress test.
RunnerStep ==
    \/ \E m \in Methods \ {"run_stress_test"}, n \in 1..MaxWorkers : runner_call(m, n)
    \/ run_case
    \/ suite_return
    \/ \E w \in 1..ConcurrentWorkers :
         \/ concurrent_request(w)
         \/ concurrent_log(w)
    \/ concurrent_return
    \/ print_test_summary

\* run_stress_test, which main() offers as a run of its own.
StressStep ==
    \/ runner_call("run_stress_test", 1)
    \/ \E w \in 1..StressWorkers :
         \/ stress_check(w)
         \/ stress_request(w)
         \/ stress_load(w)
         \/ stress_store(w)
    \/ stress_return

\* ------------------------------------------------------------- init_db
\* The apps that keep a SQLite file.
DbVariants == {"cloud", "demo"}
\* A file with no table in it. 'runs' counts the starts of the app on the
\* file and 'last' names the statement committed last.
NoDatabase == [tables |-> {}, users |-> <<>>, orders |-> <<>>, products |-> <<>>,
               runs |-> 0, last |-> "none"]
\* sample_users and sample_orders of app.py (amounts in cents); the ids
\* are those AUTOINCREMENT gives the rows of an empty table.
sample_users ==
    << [id |-> 1, name |-> "John Doe", email |-> "john@example.com"],
       [id |-> 2, name |-> "Jane Smith", email |-> "jane@example.com"],
       [id |-> 3, name |-> "Bob Johnson", email |-> "bob@example.com"] >>
sample_orders ==
    << [id |-> 1, user_id |-> 1, product |-> "Laptop", amount |-> 99999],
       [id |-> 2, user_id |-> 2, product |-> "Mouse", amount |-> 2999],
       [id |-> 3, user_id |-> 3, product |-> "Keyboard", amount |-> 7999] >>
\* The three products of app-demo (prices in cents).
sample_products ==
    << [id |-> 1, name |-> "Laptop", price |-> 99999, category |-> "Electronics"],
       [id |-> 2, name |-> "Coffee Mug", price |-> 1299, category |-> "Kitchen"],
       [id |-> 3, name |-> "Book", price |-> 2999, category |-> "Education"] >>

\* INSERT INTO t (...) VALUES (...): AUTOINCREMENT gives the next id.
Insert(rows, row) == Append(rows, [row EXCEPT !.id = Len(rows) + 1])
\* INSERT OR IGNORE INTO t (id, ...): a row whose id is taken is left out.
InsertOrIgnore(rows, row) ==
    IF \E i \in 1..Len(rows) : rows[i].id = row.id THEN rows ELSE Append(rows, row)

\* An init_db that inserts its sample rows whatever the tables hold.
init_db_reseeds(v, d) ==
    IF v = "cloud"
      THEN [d EXCEPT !.tables = @ \cup {"users", "orders"},
                     !.users = Insert(Insert(Insert(@, sample_users[1]), sample_users[2]),
                                      sample_users[3]),
                     !.orders = Insert(Insert(Insert(@, sample_orders[1]), sample_orders[2]),
                                       sample_orders[3])]
    ELSE IF v = "demo"
      THEN [d EXCEPT !.tables = @ \cup {"users", "products"},
                     !.products = Insert(Insert(Insert(@, sample_products[1]),
                                                sample_products[2]), sample_products[3])]
    ELSE d

\* init_db. app.py: CREATE TABLE IF NOT EXISTS users, orders; when
\* SELECT COUNT(*) FROM users is 0, the sample users and orders are
\* inserted. app-demo: CREATE TABLE IF NOT EXISTS users, products; three
\* INSERT OR IGNORE of products 1, 2, 3. The other apps keep no file.
init_db(v, d) ==
    IF v = "cloud"
      THEN IF Len(d.users) = 0
             THEN [d EXCEPT !.tables = @ \cup {"users", "orders"},
                            !.users = Insert(Insert(Insert(@, sample_users[1]),
                                                    sample_users[2]), sample_users[3]),
                            !.orders = Insert(Insert(Insert(@, sample_orders[1]),
                                                     sample_orders[2]), sample_orders[3])]
             ELSE [d EXCEPT !.tables = @ \cup {"users", "orders"}]
    ELSE IF v = "demo"
      THEN [d EXCEPT !.tables = @ \cup {"users", "products"},
                     !.products = InsertOrIgnore(InsertOrIgnore(InsertOrIgnore(
                                      @, sample_products[1]), sample_products[2]),
                                      sample_products[3])]
    ELSE d

\* The module is imported: init_db() runs before the first request.
Started(d) == [d EXCEPT !.runs = @ + 1, !.last = "init_db"]
db_start ==
    /\ variant \in DbVariants
    /\ db.runs < MaxRuns
    /\ db' = Started(init_db(variant, db))
    /\ UNCHANGED <<variant, shared, pc, request, response, locals, tasks, now, workers,
                   attempts, elapsed, pauses, db_op, runner>>

\* Names and addresses the requests insert.
InsertedNames == {"User_1000", "User_2000"}
UpdatedName == "Updated_1000"
\* INSERT INTO users (name, email) VALUES (?, ?) and commit: 'insert' of
\* /database-ops in app.py, create_user in app-demo.
db_insert_user ==
    /\ variant \in DbVariants
    /\ db.runs > 0
    /\ Len(db.users) < MaxRows
    /\ \E name \in InsertedNames :
         db' = [db EXCEPT !.users = Insert(@, [id |-> 0, name |-> name,
                                               email |-> "user1000@example.com"]),
                          !.last = "insert"]
    /\ UNCHANGED <<variant, shared, pc, request, response, locals, tasks, now, workers,
                   attempts, elapsed, pauses, db_op, runner>>

\* UPDATE users SET name = ? WHERE id = ? with user_id = randint(1, 3),
\* and commit: 'update' of /database-ops in app.py.
db_update_user ==
    /\ variant = "cloud"
    /\ db.runs > 0
    /\ \E user_id \in 1..3 :
         db' = [db EXCEPT !.users = [i \in 1..Len(@) |->
                                       IF @[i].id = user_id
                                         THEN [@[i] EXCEPT !.name = UpdatedName]
                                         ELSE @[i]],
                          !.last = "update"]
    /\ UNCHANGED <<variant, shared, pc, request, response, locals, tasks, now, workers,
                   attempts, elapsed, pauses, db_op, runner>>

DbStep == db_start \/ db_insert_user \/ db_update_user

\* ------------------------------------------------------------------ start
\* A users list an app can have built before the run starts: empty, or
\* holding the user of one earlier, completed POST /api/users. That user
\* has a name no request of the run carries.
InitialUser == [id |-> 1, name |-> "Bob", email |-> "a@x"]
InitUsers == { <<>>, <<InitialUser>> }

InitApp ==
    /\ variant \in Variants
    /\ users \in (IF variant \in UserVariants THEN InitUsers ELSE {<<>>})
    /\ orders = <<>>
    /\ stock \in (IF variant \in StoreVariants
                    THEN [ProductIds -> 0..MaxStock]
                    ELSE {[p \in ProductIds |-> MaxStock]})
    /\ total_requests = 0
    /\ pc = [t \in Threads |-> "idle"]
    /\ request = [t \in Threads |-> NoRequest]
    /\ response = [t \in Threads |-> NoResponse]
    /\ counter_read = [t \in Threads |-> 0]
    /\ new_id = [t \in Threads |-> 0]
    /\ idx = [t \in Threads |-> 0]
    /\ order_items = [t \in Threads |-> <<>>]
    /\ total_amount = [t \in Threads |-> 0]
    /\ order_pos = [t \in Threads |-> 0]
    /\ stock_read = [t \in Threads |-> 0]
    /\ user_name = [t \in Threads |-> ""]
    /\ tasks = <<>>
    /\ now = 0
    /\ workers = (IF variant \in WorkerVariants THEN <<NewWorker>> ELSE <<>>)
    /\ attempts = [t \in Threads |-> <<>>]
    /\ elapsed = [t \in Threads |-> 0]
    /\ pauses = [t \in Threads |-> 0]
    /\ db_op = NoDbOp
    /\ test_results = <<>>
    /\ main = MainIdle
    /\ pool = <<>>
    /\ request_count = 0
    /\ summary = NoSummary
    /\ faults = 0

\* The apps with a SQLite file have run init_db() when their module was
\* imported.
Init ==
    /\ InitApp
    /\ db = IF variant \in DbVariants
              THEN Started(init_db(variant, NoDatabase))
              ELSE NoDatabase

\* ---------------------------------------------------------- next states
UsersStep(t) ==
    \/ ReceiveUsersPost(t)
    \/ handle_users_load(t)
    \/ handle_users_store(t)
    \/ create_user_validate(t)
    \/ create_user_check_email(t)
    \/ create_user_build(t)
    \/ create_user_append(t)
    \/ instr_create_user_validate(t)
    \/ instr_create_user_build(t)
    \/ demo_create_user(t)

OrdersStep(t) ==
    \/ ReceiveOrdersPost(t)
    \/ create_order_validate(t)
    \/ create_order_verify_user(t)
    \/ create_order_process_product(t)
    \/ create_order_build(t)
    \/ create_order_append(t)
    \/ create_order_payment(t)
    \/ create_order_stock_load(t)
    \/ create_order_stock_store(t)
    \/ create_order_return(t)

HealthStep(t) ==
    \/ ReceiveHealth(t)
    \/ health_check(t)

ErrorStep(t) ==
    \/ ReceiveError(t)
    \/ send_error(t)
    \/ error_endpoint(t)

CloudStep(t) ==
    \/ ReceiveErrorTest(t)
    \/ error_test(t)
    \/ ReceiveAsyncTask(t)
    \/ async_task_start(t)
    \/ async_task_return(t)

TaskStep(k) ==
    \/ background_task_start(k)
    \/ background_task_complete(k)

ExternalStep(t) ==
    \/ ReceiveExternal(t)
    \/ requests_get(t)
    \/ external_return(t)

CpuStep(t) ==
    \/ ReceiveCpuIntensive(t)
    \/ cpu_intensive_start(t)
    \/ cpu_intensive_loop(t)
    \/ cpu_intensive_return(t)

WorkStep(t) ==
    \/ ReceiveWork(t)
    \/ send_work_loop(t)
    \/ send_work_return(t)
    \/ slow_endpoint_sleep(t)
    \/ slow_endpoint_return(t)

WorkerStep(w) ==
    \/ worker_log(w)
    \/ worker_wake(w)
    \/ worker_process(w)

NextUsers == \E t \in Threads : UsersStep(t) \/ HealthStep(t)
NextOrders == \E t \in Threads : OrdersStep(t) \/ HealthStep(t)
NextCloud ==
    \/ \E t \in Threads : CloudStep(t) \/ HealthStep(t)
    \/ \E k \in Threads : TaskStep(k)
    \/ Tick

Next ==
    \/ \E t \in Threads : UsersStep(t) \/ OrdersStep(t) \/ HealthStep(t)
                             \/ ErrorStep(t) \/ CloudStep(t) \/ WorkStep(t)
                             \/ ExternalStep(t) \/ CpuStep(t)
    \/ \E k \in Threads : TaskStep(k)
    \/ WorkerStep(1)
    \/ Tick

\* Every app, every route of the model.
Spec == Init /\ [][Next]_vars

\* POST /api/users and GET /health of the four apps that create users.
InitUsersApps ==
    /\ Init
    /\ variant \in UserVariants
    /\ stock = [p \in ProductIds |-> MaxStock]
SpecUsers == InitUsersApps /\ [][NextUsers]_vars

\* POST /api/orders and GET /health of the two in-memory store apps.
InitStoreApps == Init /\ variant \in StoreVariants
SpecOrders == InitStoreApps /\ [][NextOrders]_vars

\* The list-keeping apps when requests do not overlap: a request is
\* received only after every earlier one has been answered.
NoOverlap == \A t, s \in Threads : InFlight(t) /\ InFlight(s) => t = s
NextSequential ==
    \E t \in Threads :
        /\ UsersStep(t) \/ OrdersStep(t) \/ HealthStep(t)
        /\ NoOverlap'
InitListApps == Init /\ variant \in {"auto", "manual", "instr"}
SpecSequential == InitListApps /\ [][NextSequential]_vars

\* The load endpoints (GET /cpu-intensive, GET /work, GET /api/slow) and
\* GET /health.
NextLoad == \E t \in Threads : CpuStep(t) \/ WorkStep(t) \/ HealthStep(t)
InitLoadApps == Init /\ variant \in {"cloud", "gke", "demo"} /\ users = <<>>
SpecLoad == InitLoadApps /\ [][NextLoad]_vars

\* The external-call endpoints and GET /health.
NextExternal == \E t \in Threads : ExternalStep(t) \/ HealthStep(t)
InitExternalApps ==
    /\ Init
    /\ variant \in ExternalVariants
    /\ users = <<>>
    /\ stock = [p \in ProductIds |-> MaxStock]
SpecExternal == InitExternalApps /\ [][NextExternal]_vars

\* The test script src/test.py, a process of its own: the methods called
\* on one DynatraceTestRunner.
NextRunner == RunnerStep
InitRunner ==
    /\ Init
    /\ variant = "cloud"
SpecRunner == InitRunner /\ [][NextRunner]_vars

NextStress == StressStep

\* The SQLite file of an app over starts of the app and the statements of
\* its requests that write; the file starts without tables.
NextDb == DbStep
InitDbApps == InitApp /\ variant \in DbVariants /\ db = NoDatabase /\ users = <<>>
SpecDb == InitDbApps /\ [][NextDb]_vars
SpecStress == InitRunner /\ [][NextStress]_vars

\* Calls of simulate_database_operation, one per run.
NextDbOp ==
    \/ simulate_database_operation_call
    \/ simulate_database_operation_start
    \/ simulate_database_operation_sleep
    \/ simulate_database_operation_return
InitDbOp ==
    /\ Init
    /\ variant = "auto"
    /\ users = <<>>
    /\ stock = [p \in ProductIds |-> MaxStock]
SpecDbOp == InitDbOp /\ [][NextDbOp]_vars

\* The two apps with a periodic background thread. The thread is a thread
\* of the operating system like any other: it is scheduled again and again,
\* and its sleeps end.
NextWorker ==
    \/ \E t \in Threads : HealthStep(t) \/ ErrorStep(t) \/ WorkStep(t)
    \/ WorkerStep(1)
InitWorkerApps == Init /\ variant \in WorkerVariants
SpecWorker == InitWorkerApps /\ [][NextWorker]_vars /\ WF_vars(WorkerStep(1))

\* The Cloud Run app: error simulation, async tasks, health.
InitCloudApp == Init /\ variant = "cloud"
SpecCloud == InitCloudApp /\ [][NextCloud]_vars

\* ================================================================ claims
IsUsersPost(t) == request[t].method = "POST" /\ request[t].path = "/api/users"
IsOrdersPost(t) == request[t].method = "POST" /\ request[t].path = "/api/orders"
IsHealth(t) == request[t].path = "/health"
Done(t) == pc[t] = "done"
\* The step is a step of thread t.
StepOf(t) == pc'[t] # pc[t]
\* The apps whose create_user builds the id from len(users) + 1.
ListVariants == {"auto", "manual", "instr"}

\* The run started with a user stored.
StoredAtStart == Len(users) > 0 /\ users[1] = InitialUser

\* C1: when N POST /api/users requests with complete bodies and pairwise
\* distinct emails have all returned (handled on concurrent threads, in any
\* interleaving, from an empty users list), every response is 201, the
\* users list holds exactly N records and their ids are pairwise distinct.
C1_DistinctIds ==
    ( /\ variant \in ListVariants
      /\ ~StoredAtStart
      /\ \A t \in Threads : Done(t) /\ IsUsersPost(t) /\ ValidUserData(request[t].body)
      /\ \A t, s \in Threads : t # s => request[t].body.email # request[s].body.email )
    =>
    ( /\ \A t \in Threads : response[t].status = 201
      /\ Len(users) = NThreads
      /\ \A i, j \in 1..Len(users) : i # j => users[i].id # users[j].id )

\* C2: a POST /api/users with a complete body whose email is the email of a
\* stored user, handled while no other request is in flight (it is the
\* first request of the run and no other has arrived), appends and modifies
\* no user record and is answered 409.
C2_DuplicateEmailRejected ==
    [][ \A t \in Threads :
          ( /\ variant \in ListVariants
            /\ StepOf(t)
            /\ IsUsersPost(t)
            /\ \A s \in Threads : s # t => Idle(s)
            /\ ValidUserData(request[t].body)
            /\ EmailExists(users, request[t].body.email) )
          => ( /\ users' = users
               /\ Done(t)' => response'[t].status = 409 ) ]_vars

\* C3: a POST /api/users whose JSON body lacks 'name' or lacks 'email' (a
\* null body and an empty object included) stores no user and is answered
\* 400.
C3_MissingFieldsRejected ==
    [][ \A t \in Threads :
          ( /\ StepOf(t)
            /\ IsUsersPost(t)
            /\ InFlight(t)
            /\ ~request[t].body.malformed
            /\ ~ValidUserData(request[t].body) )
          => ( /\ users' = users
               /\ Done(t)' => response'[t].status = 400 ) ]_vars

\* The positions of create_order after the user was found.
OrderPositions ==
    {"process_product", "append_order", "payment", "update_inventory", "stock_store"}

C5_SkippedProducts ==
    [][ \A t \in Threads :
          ( StepOf(t) \/ idx'[t] # idx[t] ) /\ IsOrdersPost(t) /\ pc[t] \in OrderPositions
          => ( /\ ( /\ pc[t] = "process_product"
                    /\ idx[t] <= Len(request[t].body.product_ids)
                    /\ LET product_id == request[t].body.product_ids[idx[t]]
                       IN  product_id \notin ProductIds \/ stock[product_id] <= 0 )
                  => ( /\ order_items'[t] = order_items[t]
                       /\ total_amount'[t] = total_amount[t]
                       /\ stock' = stock
                       /\ pc'[t] = "process_product"
                       /\ idx'[t] = idx[t] + 1 )
               /\ Done(t)' =>
                    /\ response'[t].status = 201
                    /\ response'[t].body = orders[order_pos[t]]
                    /\ response'[t].body.items = order_items[t]
                    /\ response'[t].body.total_amount = total_amount[t]
               /\ \A p \in ProductIds :
                    stock'[p] # stock[p] =>
                      /\ pc[t] = "stock_store"
                      /\ order_items[t][idx[t]].product_id = p
                      /\ stock'[p] = stock_read[t] - 1 ) ]_vars

\* An order was answered 201 with no items although it asked for products,
\* one of them a product of the catalogue that was out of stock.
C5_Witness ==
    \E t \in Threads :
        /\ Done(t) /\ IsOrdersPost(t)
        /\ response[t].status = 201
        /\ response[t].body.items = <<>>
        /\ \E i \in 1..Len(request[t].body.product_ids) :
              /\ request[t].body.product_ids[i] \in ProductIds
              /\ stock[request[t].body.product_ids[i]] <= 0

IsErrorTest(t) == request[t].path = "/error-test"
IsAsyncTask(t) == request[t].path = "/async-task"
ErrorModes == {"http_error", "exception", "db_error"}

\* C6: GET /error-test with type http_error, exception or db_error is
\* answered with a 5xx status and a JSON body that has an error_type field,
\* and two answers to different modes differ in that field.
C6_ErrorTypeField ==
    \A t \in Threads :
        ( Done(t) /\ IsErrorTest(t) /\ request[t].arg \in ErrorModes )
        => ( /\ response[t].status \in 500..599
             /\ "error_type" \in DOMAIN response[t].body
             /\ \A s \in Threads :
                  ( /\ Done(s) /\ IsErrorTest(s)
                    /\ request[s].arg \in ErrorModes
                    /\ request[s].arg # request[t].arg
                    /\ "error_type" \in DOMAIN response[s].body )
                  => response[s].body.error_type # response[t].body.error_type )

\* C7: in every variant and every reachable state a GET /health that has
\* been received can be answered, and its answer is 200 with a JSON body
\* that has a timestamp field.
C7_HealthAlwaysOk ==
    \A t \in Threads :
        /\ ( InFlight(t) /\ IsHealth(t) ) => ENABLED health_check(t)
        /\ ( Done(t) /\ IsHealth(t) )
             => ( /\ response[t].status = 200
                  /\ "timestamp" \in DOMAIN response[t].body )

\* A health check was answered 200 after an earlier request had been
\* answered with an error status.
C7_Witness ==
    \E t, s \in Threads :
        /\ s < t
        /\ Done(s) /\ response[s].status >= 400
        /\ Done(t) /\ IsHealth(t) /\ response[t].status = 200

C9_TaskLogsCompletion ==
    \A k \in 1..Len(tasks) :
        tasks[k].state \notin {"started", "sleeping"}
        => ( tasks[k].start_logs = 1 /\ tasks[k].completion_logs = 1 )

\* C10: the orders list only grows; a new entry is 'pending'; an entry
\* changes only in its status, only from 'pending', only to 'paid' or
\* 'payment_failed', and only at the payment step of the request that
\* appended it; that step always makes the change; and an order returned
\* with 201 has status 'paid' or 'payment_failed'.
C10_OrderStatusOnce ==
    [][ /\ Len(orders') >= Len(orders)
        /\ \A i \in (Len(orders) + 1)..Len(orders') : orders'[i].status = "pending"
        /\ \A i \in 1..Len(orders) :
             orders'[i] # orders[i] =>
               /\ orders[i].status = "pending"
               /\ orders'[i].status \in {"paid", "payment_failed"}
               /\ orders'[i] = [orders[i] EXCEPT !.status = orders'[i].status]
               /\ \E t \in Threads :
                    /\ order_pos[t] = i
                    /\ pc[t] = "payment"
                    /\ StepOf(t)
        /\ \A t \in Threads :
             /\ ( pc[t] = "payment" /\ StepOf(t) )
                  => ( /\ orders[order_pos[t]].status = "pending"
                       /\ orders'[order_pos[t]].status # "pending" )
             /\ ( IsOrdersPost(t) /\ StepOf(t) /\ Done(t)'
                  /\ response'[t].status = 201 )
                  => response'[t].body.status \in {"paid", "payment_failed"} ]_vars

\* An order was returned with 201 and status 'payment_failed' while the
\* other order of the list was still 'pending'.
C10_Witness ==
    \E t \in Threads :
        /\ Done(t) /\ IsOrdersPost(t)
        /\ response[t].status = 201
        /\ response[t].body.status = "payment_failed"
        /\ \E i \in 1..Len(orders) : orders[i].status = "pending"

\* C11: the decrement of a line item's stock is never held back and never
\* re-tests the stock: wherever a request stands at the store of its
\* 'stock -= 1' the store can happen, it changes the stock of that item's
\* product only, and it writes the value the request loaded minus one,
\* below zero included.
C11_UnguardedDecrement ==
    [][ \A t \in Threads :
          pc[t] = "stock_store"
          => ( /\ ENABLED create_order_stock_store(t)
               /\ StepOf(t) =>
                    LET p == order_items[t][idx[t]].product_id
                    IN  /\ stock'[p] = stock_read[t] - 1
                        /\ \A q \in ProductIds \ {p} : stock'[q] = stock[q] ) ]_vars

\* Two concurrent orders of one item each, for the same product, were both
\* answered 201 with that item, and the product's stock is -1.
C11_Witness ==
    \E p \in ProductIds :
        /\ stock[p] = 0 - 1
        /\ \A t \in Threads :
              /\ Done(t) /\ IsOrdersPost(t)
              /\ request[t].body.product_ids = <<p>>
              /\ response[t].status = 201
              /\ Len(response[t].body.items) = 1

\* C12: no step of any request on any route changes or removes a stored
\* user or reorders the list; the only change to users is one record
\* appended at the end by the step of a POST /api/users that answers it with
\* success; and every POST /api/users answered with success has appended
\* exactly one record, every other answer none.
C12_UsersOnlyAppended ==
    [][ /\ Len(users') >= Len(users)
        /\ \A i \in 1..Len(users) : users'[i] = users[i]
        /\ users' # users =>
             /\ Len(users') = Len(users) + 1
             /\ \E t \in Threads :
                  /\ StepOf(t) /\ IsUsersPost(t)
                  /\ Done(t)'
                  /\ response'[t].status \in {200, 201}
                  /\ \A s \in Threads \ {t} : pc'[s] = pc[s]
        /\ \A t \in Threads :
             ( StepOf(t) /\ Done(t)' /\ IsUsersPost(t)
               /\ response'[t].status \in {200, 201} )
             => Len(users') = Len(users) + 1 ]_vars

\* A second user was appended behind the user stored at the start, and
\* the other request was rejected.
C12_Witness ==
    /\ StoredAtStart
    /\ Len(users) = 2
    /\ \E t \in Threads : Done(t) /\ response[t].status >= 400

\* C20: in every reachable state of the two in-memory store apps, also
\* while several POST /api/users are handled concurrently, no two records
\* of the users list carry the same email.
C20_UniqueEmails ==
    variant \in StoreVariants
    => \A i, j \in 1..Len(users) : i # j => users[i].email # users[j].email

\* C19: when requests do not overlap, after any sequence of POST
\* /api/users and POST /api/orders, accepted or rejected, the k-th stored
\* user has id k and the k-th stored order has id k.
C19_SequentialIds ==
    /\ \A k \in 1..Len(users) : users[k].id = k
    /\ \A k \in 1..Len(orders) : orders[k].id = k

\* A rejected POST /api/users was followed by an accepted one, whose user
\* is stored behind the user stored at the start.
C19_Witness ==
    /\ StoredAtStart
    /\ Len(users) = 2
    /\ Done(1) /\ IsUsersPost(1) /\ response[1].status >= 400
    /\ Done(2) /\ IsUsersPost(2) /\ response[2].status = 201

\* C13: a process of the demo app or the GKE app has exactly one periodic
\* background thread; the thread never ends and can always take its next
\* step, whatever the request handlers are doing; and it emits its log
\* line again and again, infinitely often.
C13_WorkerRunsForever ==
    /\ [](Len(workers) = 1)
    /\ [](workers[1].pc \in {"log", "sleep", "process"})
    /\ [](ENABLED WorkerStep(1))
    /\ []<><<worker_log(1)>>_vars

\* The worker has logged, slept and logged again while a request was in
\* flight and another had been answered.
C13_Witness ==
    /\ Len(workers) = 1
    /\ workers[1].logs = MaxLogs
    /\ \E t, s \in Threads : InFlight(t) /\ Done(s)

\* C14: while a handler is blocked in its simulated delay, a request that
\* arrives is accepted (a GET /health stands for it), and a request that
\* has been accepted is handled and answered, without the blocked handler
\* having to finish first.
C14_ThreadPerRequest ==
    \A t, s \in Threads :
        ( t # s /\ pc[t] = "work_sleep" )
        => ( /\ NextToArrive(s) => ENABLED ReceiveHealth(s)
             /\ ( InFlight(s) /\ IsHealth(s) ) => ENABLED health_check(s) )

\* What simulate_database_operation owes its caller at each point of a
\* call: it has not raised; once sampled, the duration lies in the range
\* and the 'Starting' record is out; during the pause 'Completed' is not
\* out yet; after the return the records are 'Starting', 'Completed', the
\* pause lasted exactly the duration and the duration is the value
\* returned; and until the return the call can go on.
DbOpContract ==
    /\ db_op.pc # "raised"
    /\ db_op.pc \in {"sleep", "slept", "returned"}
         => /\ db_op.lo <= db_op.duration /\ db_op.duration <= db_op.hi
            /\ db_op.log # <<>> /\ db_op.log[1] = "Starting"
    /\ db_op.pc \in {"sleep", "slept"} => db_op.log = <<"Starting">>
    /\ db_op.pc = "returned"
         => /\ db_op.log = <<"Starting", "Completed">>
            /\ db_op.slept = db_op.duration
            /\ db_op.returned = db_op.duration
    /\ db_op.pc \in {"called", "sleep", "slept"} => ENABLED NextDbOp

IsExternal(t) == request[t].path = ExternalPath(variant)
Failed(a) == a.outcome # "ok"

\* C16: a request to an external-call endpoint calls no URL twice; a call
\* that fails or times out is the request's last call; the request is then
\* answered at once, with status 500 or 503 and a JSON body that has an
\* error field; and while the request is in flight its handler can always
\* go on.
C16_NoRetry ==
    \A t \in Threads :
        ( variant \in ExternalVariants /\ IsExternal(t) )
        => LET a == attempts[t] IN
           /\ \A i, j \in 1..Len(a) : i # j => a[i].url # a[j].url
           /\ \A i \in 1..Len(a) : Failed(a[i]) => i = Len(a)
           /\ ( a # <<>> /\ Failed(a[Len(a)]) )
                => /\ Done(t)
                   /\ response[t].status \in {500, 503}
                   /\ "error" \in DOMAIN response[t].body
           /\ InFlight(t) => ENABLED ExternalStep(t)

\* The first call of a handler returned a response, its second call timed
\* out, and the request was answered 500.
C16_Witness ==
    \E t \in Threads :
        /\ IsExternal(t) /\ Done(t)
        /\ Len(attempts[t]) = 2
        /\ attempts[t][1].outcome = "ok"
        /\ attempts[t][2].outcome = "timeout"
        /\ response[t].status = 500

IsExternalCall(t) == variant \in ExternalVariants /\ IsExternal(t)

\* The requests whose handler raises an exception, in the apps that keep
\* their data in lists and in the Cloud Run app: create_user on a body that
\* is not JSON (and, in app-with-instrumentation, on a null body or one
\* that lacks a key), create_order on a null body or one that is not JSON,
\* call_external_service when a call fails, GET /error-test?type=exception
\* and POST /async-task with a duration that is not an integer.
HandlerRaises(t) ==
    \/ /\ variant \in StoreVariants
       /\ \/ IsUsersPost(t) /\ request[t].body.malformed
          \/ IsOrdersPost(t) /\ (request[t].body.malformed \/ request[t].body.is_null)
          \/ /\ IsExternalCall(t)
             /\ \E i \in 1..Len(attempts[t]) : Failed(attempts[t][i])
    \/ /\ variant = "instr"
       /\ IsUsersPost(t)
       /\ \/ request[t].body.malformed
          \/ request[t].body.is_null
          \/ ~({"name", "email"} \subseteq request[t].body.keys)
    \/ /\ variant = "cloud"
       /\ \/ IsErrorTest(t) /\ request[t].arg = "exception"
          \/ IsAsyncTask(t) /\ request[t].arg = "text"

\* A JSON error object with an error status; from the Cloud Run app's
\* global handler, status 500 with the exception's type and message.
GenericJsonError(r) ==
    /\ r.status \in 400..599
    /\ "error" \in DOMAIN r.body
    /\ variant = "cloud"
         => r.status = 500 /\ {"type", "message"} \subseteq DOMAIN r.body

\* C17: a request whose handler raises an exception is answered exactly
\* once, with a JSON error object: its handler can always go on until the
\* request is answered, the answer is a JSON object with an error field and
\* a 4xx or 5xx status (in the Cloud Run app status 500 with the fields
\* type and message), and once given the answer never changes.
C17_RaisedAnsweredOnce ==
    /\ [](\A t \in Threads :
            HandlerRaises(t)
            => /\ InFlight(t) => ENABLED (UsersStep(t) \/ OrdersStep(t) \/ ExternalStep(t)
                                          \/ ErrorStep(t) \/ CloudStep(t))
               /\ Done(t) => GenericJsonError(response[t]))
    /\ [][ \A t \in Threads :
             ( HandlerRaises(t)' /\ response'[t] # response[t] )
             => ( response[t] = NoResponse /\ Done(t)' ) ]_vars

\* A POST /api/orders whose body is not JSON has been answered 500 with the
\* generic error object of the except branch.
C17_Witness ==
    \E t \in Threads :
        /\ variant \in StoreVariants
        /\ IsOrdersPost(t) /\ request[t].body.malformed
        /\ Done(t)
        /\ response[t] = [status |-> 500, body |-> [error |-> "Internal server error"]]

IsCpuIntensive(t) == variant = "cloud" /\ request[t].path = "/cpu-intensive"
IsWork(t) == variant = "gke" /\ request[t].path = "/work"
\* ceil(n / PauseEvery)
PausesOf(n) == (n + PauseEvery - 1) \div PauseEvery

\* C18: a GET /cpu-intensive with iterations >= 1 that has been answered
\* took ceil(iterations / 10000) pauses and reports a duration_seconds of
\* at least 1 ms per pause, so more than zero; a GET /work that has been
\* answered reports a duration of at least 0.1 s. (duration_seconds in
\* milliseconds, duration in units of 0.1 ms.)
C18_DurationBounds ==
    \A t \in Threads :
        /\ ( Done(t) /\ IsCpuIntensive(t) /\ request[t].arg = "int"
             /\ request[t].iterations >= 1 )
           => /\ response[t].status = 200
              /\ pauses[t] = PausesOf(request[t].iterations)
              /\ response[t].body.duration_seconds * 10 >= pauses[t] * CpuPause
              /\ response[t].body.duration_seconds > 0
        /\ ( Done(t) /\ IsWork(t) )
           => /\ response[t].body.duration >= WorkPauseMin
              /\ response[t].body.duration >= 0

\* A request for one iteration more than two full blocks has been answered
\* after three pauses.
C18_Witness ==
    \E t \in Threads :
        /\ Done(t) /\ IsCpuIntensive(t)
        /\ request[t].iterations = 2 * PauseEvery + 1
        /\ pauses[t] = 3
        /\ response[t].body.duration_seconds >= 3

\* C21: when order requests do not overlap, the stock of every product is
\* at least 0 in every reachable state, whatever product_ids lists the
\* requests carry.
C21_StockNeverNegative ==
    variant \in StoreVariants => \A p \in ProductIds : stock[p] >= 0

RECURSIVE SumPrices(_)
SumPrices(items) ==
    IF items = <<>> THEN 0 ELSE items[1].price + SumPrices(Tail(items))

\* C22: each pass of the loop of create_order over product_ids appends one
\* item with the product's id, name and price, and adds the price to
\* total_amount, when the id is a product's and the product's stock is
\* above 0 at that check, and otherwise changes neither; nothing else
\* changes them; the order appended carries exactly these items and this
\* total; and the total_amount of every stored order is the sum of the
\* prices of its items (0 for no items).
C22_ItemsAndTotal ==
    /\ [](\A i \in 1..Len(orders) : orders[i].total_amount = SumPrices(orders[i].items))
    /\ [][ \A t \in Threads :
             IsOrdersPost(t) =>
               /\ ( pc[t] = "process_product" /\ idx'[t] # idx[t] )
                    => LET product_id == request[t].body.product_ids[idx[t]] IN
                       IF product_id \in 1..Len(Products) /\ stock[product_id] > 0
                         THEN /\ order_items'[t] =
                                   Append(order_items[t],
                                          [product_id |-> product_id,
                                           name |-> Products[product_id].name,
                                           price |-> Products[product_id].price])
                              /\ total_amount'[t] =
                                   total_amount[t] + Products[product_id].price
                         ELSE /\ order_items'[t] = order_items[t]
                              /\ total_amount'[t] = total_amount[t]
               /\ ( pc[t] \in OrderPositions /\ ~(pc[t] = "process_product" /\ idx'[t] # idx[t]) )
                    => /\ order_items'[t] = order_items[t]
                       /\ total_amount'[t] = total_amount[t]
               /\ ( pc[t] = "append_order" /\ StepOf(t) )
                    => /\ Len(orders') = Len(orders) + 1
                       /\ orders'[Len(orders')].items = order_items[t]
                       /\ orders'[Len(orders')].total_amount = total_amount[t] ]_vars

\* An order for a product in stock, then an id of no product, was answered
\* with the one item and its price as the total.
C22_Witness ==
    \E t \in Threads :
        /\ Done(t) /\ IsOrdersPost(t) /\ response[t].status = 201
        /\ request[t].body.product_ids = <<2, MissingProductId>>
        /\ response[t].body.items = <<[product_id |-> 2, name |-> "Phone", price |-> 69999]>>
        /\ response[t].body.total_amount = 69999

Entry(test_name) == test_results[KeyPos(test_results, test_name)]
\* The case of the suite the main thread is in that ran last.
LastCase == SuiteCases(main.method)[main.case - 1]
InErrorSuiteAfterCase == main.method = "test_error_generation" /\ main.case > 1

\* C24: in test_error_generation a case whose request raised HTTPError is
\* recorded as passed, with the parsed body or, when the body does not
\* parse or cannot be searched, with a placeholder; a case answered 2xx is
\* recorded as passed when its body parses as JSON; every other case (a
\* 2xx body that is not JSON, an exception that is not an HTTPError) is
\* recorded as failed.
C24_ErrorSuiteVerdicts ==
    InErrorSuiteAfterCase
    => /\ KeyPos(test_results, LastCase) # 0
       /\ Entry(LastCase).success =
            ( main.response \in HttpErrors \cup {"json_object", "json_list", "json_number"} )
       /\ main.response \in HttpErrors
            => Entry(LastCase).kind =
                 ( IF main.response = "http_error_json_object"
                     THEN "parsed" ELSE "placeholder" )

\* A case of test_error_generation got an HTTPError whose body is not JSON
\* and stands as passed, with the placeholder.
C24_Witness ==
    /\ InErrorSuiteAfterCase
    /\ main.response = "http_error_not_json"
    /\ Entry(LastCase).success
    /\ Entry(LastCase).kind = "placeholder"

\* C24 as stated: every case answered with an HTTP error or with success is
\* recorded as passed, and only one whose request raised another exception
\* as failed.
C24_AnsweredIsPassed ==
    InErrorSuiteAfterCase
    => /\ KeyPos(test_results, LastCase) # 0
       /\ Entry(LastCase).success = ( main.response \in HttpErrors \cup Returned2xx )

\* The names under which the methods of run_all_tests record results.
ConcurrentNames == { ConcurrentName(i) : i \in 1..ConcurrentWorkers }
CaseNames(m) == { SuiteCases(m)[i] : i \in 1..Len(SuiteCases(m)) }
AllNames == UNION { CaseNames(m) : m \in SequentialSuites } \cup ConcurrentNames
Entries(test_name) == { i \in 1..Len(test_results) : test_results[i].name = test_name }
\* The cases of suite m each have one entry, and the entries stand in the
\* order of the suite's list.
Recorded(m) ==
    /\ \A i \in 1..Len(SuiteCases(m)) : Cardinality(Entries(SuiteCases(m)[i])) = 1
    /\ \A i, j \in 1..Len(SuiteCases(m)) :
         i < j => KeyPos(test_results, SuiteCases(m)[i]) < KeyPos(test_results, SuiteCases(m)[j])

OwnResult(w) ==
    /\ Cardinality(Entries(ConcurrentName(w))) = 1
    /\ Entry(ConcurrentName(w)).success = (pool[w].results = ConcurrentOperations)
    /\ IF pool[w].results = ConcurrentOperations
         THEN pool[w].sent = ConcurrentOperations
         ELSE pool[w].sent = pool[w].results + 1

\* C26: in run_concurrent_tests(n) the n workers run side by side; a
\* worker that is still running has had every request answered well; a
\* worker that is done sends no further request and has exactly one entry
\* under 'Concurrent Test i', passed iff its four requests succeeded and
\* else failed at its first failing request, whatever the other workers
\* logged since; the method returns only when all n workers are done, and
\* after its return each of the n workers has its entry.
C26_ConcurrentResults ==
    /\ main.method = "run_concurrent_tests"
         => /\ Len(pool) \in 1..ConcurrentWorkers
            /\ \A w \in 1..Len(pool) :
                 /\ pool[w].pc = "running"
                      => pool[w].sent = pool[w].results /\ pool[w].results <= ConcurrentOperations
                 /\ pool[w].pc = "done"
                      => /\ OwnResult(w)
                         /\ ~ENABLED concurrent_request(w)
                         /\ ~ENABLED concurrent_log(w)
            /\ ENABLED concurrent_return => \A w \in 1..Len(pool) : pool[w].pc = "done"
    /\ main.returned = "run_concurrent_tests" /\ main.method # "run_concurrent_tests"
         => \A w \in 1..Len(pool) : pool[w].pc = "done" /\ OwnResult(w)

\* run_concurrent_tests(2) has returned: worker 1 failed at its second
\* request, worker 2 passed with four, and both entries are there.
C26_Witness ==
    /\ main.returned = "run_concurrent_tests" /\ main.method = "none"
    /\ Len(pool) = 2
    /\ pool[1].sent = 2 /\ pool[1].results = 1
    /\ pool[2].results = ConcurrentOperations
    /\ ~Entry(ConcurrentName(1)).success /\ Entry(ConcurrentName(2)).success

\* The requests the stress workers completed: those that returned.
RECURSIVE Completed(_)
Completed(workers_) ==
    IF workers_ = <<>> THEN 0 ELSE workers_[1].completed + Completed(Tail(workers_))

\* C27: when run_stress_test has returned, the total_requests of its
\* 'Stress Test' entry is the number of requests its three workers
\* completed successfully. (Violated: two workers that load request_count
\* before either stores it count two completed requests as one.)
C27_TotalIsCompleted ==
    main.returned = "run_stress_test" /\ main.method = "none"
    => /\ KeyPos(test_results, "Stress Test") # 0
       /\ Entry("Stress Test").n = Completed(pool)

\* What does hold: a request that raised is never counted, and the total
\* is at least 1 when a request completed and at most their number.
C27_TotalAtMostCompleted ==
    main.returned = "run_stress_test" /\ main.method = "none"
    => /\ Entry("Stress Test").n <= Completed(pool)
       /\ Completed(pool) > 0 => Entry("Stress Test").n >= 1

\* The names test_results has entries for, and those whose entry is a
\* failed result.
TestNames(tr) == { tr[i].name : i \in 1..Len(tr) }
Unsuccessful(tr) == { tr[i].name : i \in { k \in 1..Len(tr) : ~tr[k].success } }
\* tr2 is tr1 after results were logged under test_name only: the entries
\* of the other names are where and what they were, and test_name has one
\* entry, in its old place or, if it had none, at the end.
LoggedUnder(tr1, tr2, test_name) ==
    /\ Len(tr2) = IF test_name \in TestNames(tr1) THEN Len(tr1) ELSE Len(tr1) + 1
    /\ \A i \in 1..Len(tr1) : tr1[i].name # test_name => tr2[i] = tr1[i]
    /\ \A i \in 1..Len(tr2) :
         tr2[i].name = test_name
         => i = IF test_name \in TestNames(tr1) THEN KeyPos(tr1, test_name) ELSE Len(tr2)

\* C28: test_results never has two entries of one name: a step that logs
\* results puts them under one name, in place of the entry the name had
\* or as a new last entry. print_test_summary with no entry reports that
\* no tests were executed and computes no rate; else it reports as Total
\* the number of distinct names, Passed and Failed that add up to Total,
\* and as failed tests exactly the names whose entry is unsuccessful, each
\* once.
C28_OneEntryPerNameAndSummary ==
    /\ [](Cardinality(TestNames(test_results)) = Len(test_results))
    /\ [][ test_results' # test_results
           => \E test_name \in TestNames(test_results') :
                LoggedUnder(test_results, test_results', test_name) ]_vars
    /\ [][ main.method = "print_test_summary" /\ main' # main
           => /\ summary'.printed
              /\ test_results' = test_results
              /\ IF test_results = <<>>
                   THEN ~summary'.executed /\ ~summary'.rate
                   ELSE /\ summary'.executed /\ summary'.rate
                        /\ summary'.total = Cardinality(TestNames(test_results))
                        /\ summary'.passed + summary'.failed = summary'.total
                        /\ summary'.failed = Cardinality(Unsuccessful(test_results))
                        /\ Len(summary'.failed_names) = summary'.failed
                        /\ { summary'.failed_names[i] : i \in 1..summary'.failed }
                             = Unsuccessful(test_results) ]_vars

\* The summary after test_custom_metrics, whose first case was logged as
\* passed and then, in its place, as failed: two tests, one failed.
C28_Witness ==
    /\ summary.printed /\ summary.executed
    /\ summary.total = 2 /\ summary.passed = 1
    /\ summary.failed_names = <<"Business Metrics">>
    /\ test_results[1].name = "Business Metrics" /\ test_results[2].success

\* The requests on /api/users that handle_users has received and counted,
\* and whether a thread is inside the increment of the counter.
UsersReceived == { t \in Threads : IsUsersPost(t) /\ pc[t] # "idle" }
Counting == \E t \in Threads : pc[t] \in {"handle_users", "handle_users_store"}

\* C29: whenever no thread is inside the increment, the request counter
\* of the in-memory apps equals the number of requests received so far
\* on the counted routes. (Violated: two requests that load the counter
\* before either stores it raise it by one.)
C29_CounterCountsRequests ==
    variant \in ListVariants /\ ~Counting
    => total_requests = Cardinality(UsersReceived)

\* What does hold: the counter never exceeds the number of requests
\* received, and is at least 1 once one of them has been counted.
C29_CounterAtMostRequests ==
    variant \in ListVariants /\ ~Counting
    => /\ total_requests <= Cardinality(UsersReceived)
       /\ UsersReceived # {} => total_requests >= 1

\* The rows of the tables of the file.
Rows(d) == <<d.users, d.orders, d.products>>
InitDbRan == db'.runs # db.runs
\* The sample rows init_db puts into a file without rows.
SeedRows ==
    IF variant = "cloud" THEN <<sample_users, sample_orders, <<>> >>
    ELSE <<<<>>, <<>>, sample_products>>

\* C30: init_db on a file it has initialised before, whatever rows the
\* requests have inserted or updated since, leaves every table as it is:
\* no row added, none changed. Only the first run, which finds the tables
\* empty, inserts the sample rows.
C30_InitDbIdempotent ==
    /\ [](db.runs > 0 => Rows(init_db(variant, db)) = Rows(db))
    /\ [][ InitDbRan
           => IF db.runs > 0
                THEN Rows(db') = Rows(db)
                ELSE Rows(db) = <<<<>>, <<>>, <<>>>> /\ Rows(db') = SeedRows ]_vars

\* app.py has started again on a file that holds, besides the sample
\* rows, two inserted users and an updated name.
C30_Witness ==
    /\ variant = "cloud"
    /\ db.last = "init_db" /\ db.runs > 1
    /\ Len(db.users) = MaxRows
    /\ db.users[2].name = UpdatedName
    /\ Len(db.orders) = 3

====
